---- MODULE Spec2Model ----
(***************************************************************************)
(* Payment authorization pipeline of payment_service.                      *)
(*                                                                         *)
(* The relational store is modelled as PostgreSQL under READ COMMITTED:    *)
(* the variables account_balances, payments, ledger_entries, outbox and    *)
(* idempotency_keys hold the committed rows; tx[t] holds the uncommitted   *)
(* writes and row locks of the session of call t.  Every action is one     *)
(* awaited statement (or a run of statements that touch only the session's *)
(* own uncommitted rows) of PaymentService.authorize_payment.              *)
(***************************************************************************)
EXTENDS Integers, FiniteSets, Sequences, TLC

\* ---------------------------------------------------------------- bounds
NumCalls == 2
MaxAmount == 2
InitAvailable == 2
MaxRetries == 1
MaxBatch == 2
MaxEvents == 2
NumRateCalls == 4
NumKeyCalls == 3
MaxRequests == 2
WindowSeconds == 3
MaxTime == 3

Calls == 1..NumCalls
Keys == {"k1", "k2"}
Amounts == 0..MaxAmount
Currencies == {"USD", "EUR"}

\* Account identifiers a request may name: A and B are provisioned accounts
\* with a balance row, C is an account without a balance row, X is unknown.
\* D is a provisioned account that no request names.
AccountIds == {"A", "B", "C", "X"}
FundedAccountIds == {"A", "B"}
accounts == {"A", "B", "C", "D"}
BalanceAccounts == {"A", "B", "D"}

\* A fresh ULID: the n-th identifier allocated by call t.
ULID(t, n) == (t * 10) + n

NoRecord == [status |-> "NONE", payment_id |-> 0, expired |-> FALSE]
NoBalance == [available_balance_cents |-> 0, version |-> 0]
NoCommand == [idempotency_key |-> "", payer_account_id |-> "", payee_account_id |-> "",
              amount_cents |-> 0, currency |-> ""]
NoResult == [status |-> "NONE", payment_id |-> 0, error_code |-> ""]
NoPayment == [id |-> 0, idempotency_key |-> "", payer_account_id |-> "",
              payee_account_id |-> "", amount_cents |-> 0, currency |-> "",
              status |-> "NONE"]
NoIdemWrite == [op |-> "none", status |-> "NONE", payment_id |-> 0]
EmptyTx == [idem |-> NoIdemWrite, payments |-> {}, ledger |-> {}, balances |-> {},
            outbox |-> {}, locks |-> {}]

\* The outbox processors running side by side
Dispatchers == {"d1", "d2"}
\* The requests to the rate limiters
RateCalls == 1..NumRateCalls

\* The constructor arguments of the limiters
max_requests == MaxRequests
window_seconds == WindowSeconds
KeyPrefixes == {"ratelimit:", "test:"}

\* The identifiers RateLimitInterceptor._get_identifier builds
Identifiers == {"client:a", "client:b"}

\* The bucket of a limiter for an identifier named by the prefix alone
Key_PrefixOnly(key_prefix, identifier) == key_prefix

\* key = f"{self._key_prefix}{identifier}"
Key(key_prefix, identifier) == key_prefix \o identifier

\* The key without a time to live
NoTtl == -1

NoRateCall == [op |-> "", key_prefix |-> "", identifier |-> "", key |-> "", now |-> 0]
NoRateResult == [is_allowed |-> FALSE, remaining |-> 0]
EmptyBatchTx == [published |-> {}, retried |-> {}]
MAX_CONSECUTIVE_FAILURES == 10

TransferCommand == [idempotency_key : Keys, payer_account_id : FundedAccountIds,
                    payee_account_id : FundedAccountIds, amount_cents : 1..MaxAmount,
                    currency : {"USD"}]

AuthorizePaymentCommand == [idempotency_key : Keys, payer_account_id : AccountIds,
                            payee_account_id : AccountIds, amount_cents : Amounts,
                            currency : Currencies]

VARIABLES account_balances, payments, ledger_entries, outbox, idempotency_keys,
          pc, cmd, tx, payment, payer_balance, payee_balance, result,
          broker, dpc, events, pos, published_ids, dlq_events, dtx, sent, attempted,
          running, producer, consecutive_failures, producer_stops, stop_pc,
          clock, zsets, ttl, rl_pc, rl_call, rl_result

db == <<account_balances, payments, ledger_entries, outbox, idempotency_keys>>
session == <<pc, cmd, tx, payment, payer_balance, payee_balance, result>>
loop == <<running, producer, consecutive_failures, producer_stops>>
outbox_processor == <<broker, dpc, events, pos, published_ids, dlq_events, dtx, sent,
                      attempted, running, producer, consecutive_failures, producer_stops,
                      stop_pc>>
rate_limiter == <<clock, zsets, ttl, rl_pc, rl_call, rl_result>>
vars == <<account_balances, payments, ledger_entries, outbox, idempotency_keys,
          pc, cmd, tx, payment, payer_balance, payee_balance, result,
          broker, dpc, events, pos, published_ids, dlq_events, dtx, sent, attempted,
          running, producer, consecutive_failures, producer_stops, stop_pc,
          clock, zsets, ttl, rl_pc, rl_call, rl_result>>

Init ==
    /\ account_balances = [a \in BalanceAccounts |->
                             [available_balance_cents |-> IF a = "A" THEN InitAvailable ELSE 1,
                              version |-> 1]]
    /\ payments = {}
    /\ ledger_entries = {}
    /\ outbox = {}
    /\ idempotency_keys = [k \in Keys |-> NoRecord]
    /\ pc = [t \in Calls |-> "idle"]
    /\ cmd = [t \in Calls |-> NoCommand]
    /\ tx = [t \in Calls |-> EmptyTx]
    /\ payment = [t \in Calls |-> NoPayment]
    /\ payer_balance = [t \in Calls |-> NoBalance]
    /\ payee_balance = [t \in Calls |-> NoBalance]
    /\ result = [t \in Calls |-> NoResult]
    /\ broker = {}
    /\ dpc = [d \in Dispatchers |-> "start"]
    /\ events = [d \in Dispatchers |-> <<>>]
    /\ pos = [d \in Dispatchers |-> 1]
    /\ published_ids = [d \in Dispatchers |-> {}]
    /\ dlq_events = [d \in Dispatchers |-> <<>>]
    /\ dtx = [d \in Dispatchers |-> EmptyBatchTx]
    /\ sent = [d \in Dispatchers |-> {}]
    /\ attempted = [d \in Dispatchers |-> {}]
    /\ running = [d \in Dispatchers |-> FALSE]
    /\ producer = [d \in Dispatchers |-> "None"]
    /\ consecutive_failures = [d \in Dispatchers |-> 0]
    /\ producer_stops = [d \in Dispatchers |-> 0]
    /\ stop_pc = [d \in Dispatchers |-> "wait"]
    /\ clock = 0
    /\ zsets = [k \in {Key(p, i) : p \in KeyPrefixes, i \in Identifiers} |-> {}]
    /\ ttl = [k \in DOMAIN zsets |-> NoTtl]
    /\ rl_pc = [c \in RateCalls |-> "idle"]
    /\ rl_call = [c \in RateCalls |-> NoRateCall]
    /\ rl_result = [c \in RateCalls |-> NoRateResult]

\* ------------------------------------------------------------ repositories

\* The expiry comparison reversed: only expired records are returned
IdempotencyGet_ExpiredOnly(key) ==
    IF idempotency_keys[key].status # "NONE" /\ idempotency_keys[key].expired
    THEN idempotency_keys[key]
    ELSE NoRecord

\* IdempotencyRepository.get: WHERE key = :key AND expires_at > :now
IdempotencyGet(key) ==
    IF idempotency_keys[key].status # "NONE" /\ ~idempotency_keys[key].expired
    THEN idempotency_keys[key]
    ELSE NoRecord

\* A session that inserted or updated the row of a key holds its row lock
\* until it commits or rolls back.
IdemLockedByOther(t, key) ==
    \E u \in Calls \ {t} : tx[u].idem.op # "none" /\ cmd[u].idempotency_key = key

\* AccountRepository.get
AccountGet(account_id) == account_id \in accounts

\* accounts.currency: every provisioned account is held in the column default
AccountCurrency(account_id) == "USD"

\* BalanceRepository.get: the committed row (a session never reads a balance
\* it has itself written before this point)
HasBalance(account_id) == account_id \in BalanceAccounts
BalanceGet(account_id) ==
    IF HasBalance(account_id) THEN account_balances[account_id] ELSE NoBalance

BalanceLockedByOther(t, account_id) ==
    \E u \in Calls \ {t} : account_id \in tx[u].locks

\* authorize_payment returns (or raises): the caller holds the result, the
\* session with its command, locals, uncommitted rows and locks is gone
Return(t, r) ==
    /\ pc' = [pc EXCEPT ![t] = "done"]
    /\ result' = [result EXCEPT ![t] = r]
    /\ tx' = [tx EXCEPT ![t] = EmptyTx]
    /\ cmd' = [cmd EXCEPT ![t] = NoCommand]
    /\ payment' = [payment EXCEPT ![t] = NoPayment]
    /\ payer_balance' = [payer_balance EXCEPT ![t] = NoBalance]
    /\ payee_balance' = [payee_balance EXCEPT ![t] = NoBalance]

\* A rollback that keeps the payment row the session had inserted
Rollback_KeepsPayment(t) ==
    /\ payments' = payments \cup tx[t].payments
    /\ UNCHANGED <<account_balances, ledger_entries, outbox, idempotency_keys>>

\* UnitOfWork.rollback: the uncommitted rows of the session are discarded
Rollback(t) == UNCHANGED db

\* OptimisticLockError(entity, entity_id): the exception carries its message
OptimisticLockError(entity, entity_id) ==
    "Optimistic lock failed for " \o entity \o " " \o entity_id

\* UnitOfWork.__aexit__ with an exception: rollback, the exception reaches the caller
Raise(t, exception) ==
    /\ Rollback(t)
    /\ Return(t, [status |-> "RAISED", payment_id |-> 0, error_code |-> exception])

\* --------------------------------------------------------------- pipeline

\* authorize_payment, up to and including `existing = idempotency.get(key)`
AuthorizePayment(t, c) ==
    /\ pc[t] = "idle"
    /\ \A u \in Calls : u < t => pc[u] # "idle"
    /\ LET existing == IdempotencyGet(c.idempotency_key) IN
       IF existing.status = "COMPLETED"
       THEN Return(t, [status |-> "DUPLICATE", payment_id |-> existing.payment_id,
                       error_code |-> ""])
       ELSE /\ cmd' = [cmd EXCEPT ![t] = c]
            /\ pc' = [pc EXCEPT ![t] =
                        IF existing.status = "NONE" THEN "create" ELSE "validate"]
            /\ UNCHANGED <<tx, payment, payer_balance, payee_balance, result>>
    /\ UNCHANGED db
    /\ UNCHANGED <<outbox_processor, rate_limiter>>

\* IdempotencyRepository.create: INSERT ... ON CONFLICT (key) DO NOTHING.
\* The insert waits for a session holding an uncommitted row of the key.
IdempotencyCreate(t) ==
    /\ pc[t] = "create"
    /\ ~IdemLockedByOther(t, cmd[t].idempotency_key)
    /\ IF idempotency_keys[cmd[t].idempotency_key].status = "NONE"
       THEN tx' = [tx EXCEPT ![t].idem =
                     [op |-> "insert", status |-> "PENDING", payment_id |-> 0]]
       ELSE tx' = tx
    /\ pc' = [pc EXCEPT ![t] = "validate"]
    /\ UNCHANGED <<db, cmd, payment, payer_balance, payee_balance, result>>
    /\ UNCHANGED <<outbox_processor, rate_limiter>>

Declined(code) == [status |-> "DECLINED", payment_id |-> 0, error_code |-> code]

\* The same-account check made before the amount check
ValidateAndCreatePayment_SameAccountFirst(c) ==
    IF c.payer_account_id = c.payee_account_id THEN Declined("SAME_ACCOUNT")
    ELSE IF c.amount_cents <= 0 THEN Declined("INVALID_AMOUNT")
    ELSE IF ~AccountGet(c.payer_account_id) THEN Declined("ACCOUNT_NOT_FOUND")
    ELSE IF ~AccountGet(c.payee_account_id) THEN Declined("ACCOUNT_NOT_FOUND")
    ELSE IF \/ ~HasBalance(c.payer_account_id)
            \/ BalanceGet(c.payer_account_id).available_balance_cents < c.amount_cents
         THEN Declined("INSUFFICIENT_FUNDS")
    ELSE [status |-> "AUTHORIZED", payment_id |-> 0, error_code |-> ""]

\* _validate_and_create_payment
ValidateAndCreatePayment(c) ==
    IF c.amount_cents <= 0 THEN Declined("INVALID_AMOUNT")
    ELSE IF c.payer_account_id = c.payee_account_id THEN Declined("SAME_ACCOUNT")
    ELSE IF ~AccountGet(c.payer_account_id) THEN Declined("ACCOUNT_NOT_FOUND")
    ELSE IF ~AccountGet(c.payee_account_id) THEN Declined("ACCOUNT_NOT_FOUND")
    ELSE IF \/ ~HasBalance(c.payer_account_id)
            \/ BalanceGet(c.payer_account_id).available_balance_cents < c.amount_cents
         THEN Declined("INSUFFICIENT_FUNDS")
    ELSE [status |-> "AUTHORIZED", payment_id |-> 0, error_code |-> ""]

\* result = _validate_and_create_payment(cmd); accounts are never inserted or
\* deleted by the service, so the one read of mutable data is balances.get
Validate(t) ==
    /\ pc[t] = "validate"
    /\ LET r == ValidateAndCreatePayment(cmd[t]) IN
       IF r.status = "DECLINED"
       THEN /\ result' = [result EXCEPT ![t] = r]
            /\ pc' = [pc EXCEPT ![t] = "mark_failed"]
       ELSE /\ result' = result
            /\ pc' = [pc EXCEPT ![t] = "add_payment"]
    /\ UNCHANGED <<db, cmd, tx, payment, payer_balance, payee_balance>>
    /\ UNCHANGED <<outbox_processor, rate_limiter>>

\* Payment.create
PaymentCreate(t, c) ==
    [id |-> ULID(t, 0), idempotency_key |-> c.idempotency_key,
     payer_account_id |-> c.payer_account_id, payee_account_id |-> c.payee_account_id,
     amount_cents |-> c.amount_cents, currency |-> c.currency, status |-> "AUTHORIZED"]

\* The payments table without the unique index on idempotency_key
PaymentKeyConflict_NoUnique(key) == FALSE

\* payments.idempotency_key is UNIQUE: a committed row with the key rejects the insert
PaymentKeyConflict(key) == \E p \in payments : p.idempotency_key = key

\* ... and an uncommitted row with the key makes the insert wait for its session
PaymentKeyLockedByOther(t, key) ==
    \E u \in Calls \ {t} : \E p \in tx[u].payments : p.idempotency_key = key

\* PaymentRepository.add
PaymentsAdd(t) ==
    /\ pc[t] = "add_payment"
    /\ ~PaymentKeyLockedByOther(t, cmd[t].idempotency_key)
    /\ IF PaymentKeyConflict(cmd[t].idempotency_key)
       THEN Raise(t, "IntegrityError")
       ELSE /\ payment' = [payment EXCEPT ![t] = PaymentCreate(t, cmd[t])]
            /\ tx' = [tx EXCEPT ![t].payments = {payment'[t]}]
            /\ pc' = [pc EXCEPT ![t] = "lock_payer"]
            /\ UNCHANGED <<db, cmd, payer_balance, payee_balance, result>>
    /\ UNCHANGED <<outbox_processor, rate_limiter>>

\* BalanceRepository.get_for_update: SELECT ... FOR UPDATE waits for the row lock
\* and returns the latest committed row; a missing row returns None without a lock.
GetForUpdate(t, account_id) ==
    /\ ~BalanceLockedByOther(t, account_id)
    /\ tx' = [tx EXCEPT ![t].locks =
                IF HasBalance(account_id) THEN @ \cup {account_id} ELSE @]

\* _execute_transfer: payer_balance = get_for_update(payer)
GetForUpdatePayer(t) ==
    /\ pc[t] = "lock_payer"
    /\ GetForUpdate(t, payment[t].payer_account_id)
    /\ payer_balance' = [payer_balance EXCEPT ![t] = BalanceGet(payment[t].payer_account_id)]
    /\ pc' = [pc EXCEPT ![t] = "lock_payee"]
    /\ UNCHANGED <<db, cmd, payment, payee_balance, result>>
    /\ UNCHANGED <<outbox_processor, rate_limiter>>

\* _execute_transfer without the re-check under the lock
InsufficientAfterLock_NoRecheck(balance, amount_cents) == FALSE

\* the re-check under the lock
InsufficientAfterLock(balance, amount_cents) ==
    balance.available_balance_cents < amount_cents

\* _execute_transfer: payee_balance = get_for_update(payee) and the checks between
\* it and the next statement
GetForUpdatePayee(t) ==
    /\ pc[t] = "lock_payee"
    /\ ~BalanceLockedByOther(t, payment[t].payee_account_id)
    /\ IF \/ ~HasBalance(payment[t].payer_account_id)
          \/ ~HasBalance(payment[t].payee_account_id)
          \/ InsufficientAfterLock(payer_balance[t], payment[t].amount_cents)
       THEN Raise(t, "ValueError")
       ELSE /\ GetForUpdate(t, payment[t].payee_account_id)
            /\ payee_balance' = [payee_balance EXCEPT ![t] =
                                   BalanceGet(payment[t].payee_account_id)]
            /\ pc' = [pc EXCEPT ![t] = "transfer"]
            /\ UNCHANGED <<db, cmd, payment, payer_balance, result>>
    /\ UNCHANGED <<outbox_processor, rate_limiter>>

\* The credit computed with the sign of the debit
NewPayeeBalance_Minus(balance, amount_cents) == balance.available_balance_cents - amount_cents

\* A debit that leaves the balance of the payer alone
NewPayerBalance_Unchanged(balance, amount_cents) == balance.available_balance_cents

NewPayerBalance(balance, amount_cents) == balance.available_balance_cents - amount_cents
NewPayeeBalance(balance, amount_cents) == balance.available_balance_cents + amount_cents

\* LedgerEntry.create
LedgerEntryCreate(id, payment_id, account_id, entry_type, amount_cents, currency, balance_after) ==
    [id |-> id, payment_id |-> payment_id, account_id |-> account_id,
     entry_type |-> entry_type, amount_cents |-> amount_cents, currency |-> currency,
     balance_after_cents |-> balance_after]

\* The debit entry recording the balance before the transfer
DebitEntry_BalanceBefore(t) ==
    LedgerEntryCreate(ULID(t, 1), payment[t].id, payment[t].payer_account_id, "DEBIT",
                      payment[t].amount_cents, payment[t].currency,
                      payer_balance[t].available_balance_cents)

DebitEntry(t) ==
    LedgerEntryCreate(ULID(t, 1), payment[t].id, payment[t].payer_account_id, "DEBIT",
                      payment[t].amount_cents, payment[t].currency,
                      NewPayerBalance(payer_balance[t], payment[t].amount_cents))

\* The credit entry booked on the payer account
CreditEntry_OnPayer(t) ==
    LedgerEntryCreate(ULID(t, 2), payment[t].id, payment[t].payer_account_id, "CREDIT",
                      payment[t].amount_cents, payment[t].currency,
                      NewPayeeBalance(payee_balance[t], payment[t].amount_cents))

CreditEntry(t) ==
    LedgerEntryCreate(ULID(t, 2), payment[t].id, payment[t].payee_account_id, "CREDIT",
                      payment[t].amount_cents, payment[t].currency,
                      NewPayeeBalance(payee_balance[t], payment[t].amount_cents))

\* The update without the version predicate
UpdateMatches_AnyVersion(account_id, expected_version) == HasBalance(account_id)

\* BalanceRepository.update: WHERE account_id = :account_id AND version = :expected_version
UpdateMatches(account_id, expected_version) ==
    /\ HasBalance(account_id)
    /\ account_balances[account_id].version = expected_version

\* SET available_balance_cents = :new_balance, version = version + 1
UpdatedBalance(account_id, new_available_balance) ==
    [account_id |-> account_id, available_balance_cents |-> new_available_balance,
     version |-> account_balances[account_id].version + 1]

\* _execute_transfer from the first ledger.add to the second balances.update:
\* statements on rows this session inserted or has locked
ExecuteTransfer(t) ==
    /\ pc[t] = "transfer"
    /\ IF /\ UpdateMatches(payment[t].payer_account_id, payer_balance[t].version)
          /\ UpdateMatches(payment[t].payee_account_id, payee_balance[t].version)
       THEN /\ tx' = [tx EXCEPT
                        ![t].ledger = {DebitEntry(t), CreditEntry(t)},
                        ![t].balances =
                          {UpdatedBalance(payment[t].payer_account_id,
                               NewPayerBalance(payer_balance[t], payment[t].amount_cents)),
                           UpdatedBalance(payment[t].payee_account_id,
                               NewPayeeBalance(payee_balance[t], payment[t].amount_cents))}]
            /\ pc' = [pc EXCEPT ![t] = "outbox"]
            /\ UNCHANGED <<db, cmd, payment, payer_balance, payee_balance, result>>
       ELSE Raise(t, OptimisticLockError("AccountBalance",
                     IF UpdateMatches(payment[t].payer_account_id, payer_balance[t].version)
                     THEN payment[t].payee_account_id
                     ELSE payment[t].payer_account_id))
    /\ UNCHANGED <<outbox_processor, rate_limiter>>

\* The event keyed by its own id instead of the payment id
OutboxEventCreate_OwnIdAsAggregate(t) ==
    [id |-> ULID(t, 3), aggregate_type |-> "Payment",
     aggregate_id |-> ULID(t, 3),
     event_type |-> "PaymentAuthorized",
     payload |-> [payment_id |-> payment[t].id,
                  payer_account_id |-> payment[t].payer_account_id,
                  payee_account_id |-> payment[t].payee_account_id,
                  amount_cents |-> payment[t].amount_cents,
                  currency |-> payment[t].currency],
     published_at |-> "NULL", retry_count |-> 0]

\* OutboxEvent.create with the arguments of authorize_payment
OutboxEventCreate(t) ==
    [id |-> ULID(t, 3), aggregate_type |-> "Payment", aggregate_id |-> payment[t].id,
     event_type |-> "PaymentAuthorized",
     payload |-> [payment_id |-> payment[t].id,
                  payer_account_id |-> payment[t].payer_account_id,
                  payee_account_id |-> payment[t].payee_account_id,
                  amount_cents |-> payment[t].amount_cents,
                  currency |-> payment[t].currency],
     published_at |-> "NULL", retry_count |-> 0]

\* OutboxRepository.add
OutboxAdd(t) ==
    /\ pc[t] = "outbox"
    /\ tx' = [tx EXCEPT ![t].outbox = {OutboxEventCreate(t)}]
    /\ pc' = [pc EXCEPT ![t] = "mark_completed"]
    /\ UNCHANGED <<db, cmd, payment, payer_balance, payee_balance, result>>
    /\ UNCHANGED <<outbox_processor, rate_limiter>>

\* The row of a key as the session of call t sees it: its own uncommitted
\* version, else the committed one.
IdemRowExists(t, key) ==
    tx[t].idem.op # "none" \/ idempotency_keys[key].status # "NONE"

IdemRowPaymentId(t, key) ==
    IF tx[t].idem.op # "none" THEN tx[t].idem.payment_id
    ELSE idempotency_keys[key].payment_id

\* The update reaching only a row the session itself inserted
IdemUpdate_OwnInsertOnly(t, key, status, payment_id) ==
    IF tx[t].idem.op = "insert"
    THEN [op |-> "insert", status |-> status, payment_id |-> payment_id]
    ELSE tx[t].idem

IdemUpdate(t, key, status, payment_id) ==
    IF IdemRowExists(t, key)
    THEN [op |-> IF tx[t].idem.op = "insert" THEN "insert" ELSE "update",
          status |-> status, payment_id |-> payment_id]
    ELSE tx[t].idem

\* The success path committing without mark_completed
MarkCompleted_Skipped(t) ==
    /\ pc[t] = "mark_completed"
    /\ pc' = [pc EXCEPT ![t] = "commit"]
    /\ UNCHANGED <<db, cmd, tx, payment, payer_balance, payee_balance, result>>
    /\ UNCHANGED <<outbox_processor, rate_limiter>>

\* mark_completed that sets the status and leaves payment_id alone
MarkCompleted_NoPaymentId(t) ==
    /\ pc[t] = "mark_completed"
    /\ ~IdemLockedByOther(t, cmd[t].idempotency_key)
    /\ tx' = [tx EXCEPT ![t].idem =
                IdemUpdate(t, cmd[t].idempotency_key, "COMPLETED",
                           IdemRowPaymentId(t, cmd[t].idempotency_key))]
    /\ pc' = [pc EXCEPT ![t] = "commit"]
    /\ UNCHANGED <<db, cmd, payment, payer_balance, payee_balance, result>>
    /\ UNCHANGED <<outbox_processor, rate_limiter>>

\* IdempotencyRepository.mark_completed: UPDATE ... SET status = 'COMPLETED',
\* payment_id = :payment_id WHERE key = :key
MarkCompleted(t) ==
    /\ pc[t] = "mark_completed"
    /\ ~IdemLockedByOther(t, cmd[t].idempotency_key)
    /\ tx' = [tx EXCEPT ![t].idem =
                IdemUpdate(t, cmd[t].idempotency_key, "COMPLETED", payment[t].id)]
    /\ pc' = [pc EXCEPT ![t] = "commit"]
    /\ UNCHANGED <<db, cmd, payment, payer_balance, payee_balance, result>>
    /\ UNCHANGED <<outbox_processor, rate_limiter>>

\* The decline path committing without mark_failed
MarkFailed_Skipped(t) ==
    /\ pc[t] = "mark_failed"
    /\ pc' = [pc EXCEPT ![t] = "commit"]
    /\ UNCHANGED <<db, cmd, tx, payment, payer_balance, payee_balance, result>>
    /\ UNCHANGED <<outbox_processor, rate_limiter>>

\* IdempotencyRepository.mark_failed: UPDATE ... SET status = 'FAILED' WHERE key = :key
MarkFailed(t) ==
    /\ pc[t] = "mark_failed"
    /\ ~IdemLockedByOther(t, cmd[t].idempotency_key)
    /\ tx' = [tx EXCEPT ![t].idem =
                IdemUpdate(t, cmd[t].idempotency_key, "FAILED",
                           IdemRowPaymentId(t, cmd[t].idempotency_key))]
    /\ pc' = [pc EXCEPT ![t] = "commit"]
    /\ UNCHANGED <<db, cmd, payment, payer_balance, payee_balance, result>>
    /\ UNCHANGED <<outbox_processor, rate_limiter>>

\* The committed idempotency row of a key after the session of call t commits
CommittedIdem(t, key) ==
    IF tx[t].idem.op = "none" \/ cmd[t].idempotency_key # key THEN idempotency_keys[key]
    ELSE [status |-> tx[t].idem.status, payment_id |-> tx[t].idem.payment_id,
          expired |-> IF tx[t].idem.op = "insert" THEN FALSE
                      ELSE idempotency_keys[key].expired]

CommittedBalance(t, a) ==
    IF \E w \in tx[t].balances : w.account_id = a
    THEN LET w == CHOOSE w \in tx[t].balances : w.account_id = a
         IN  [available_balance_cents |-> w.available_balance_cents, version |-> w.version]
    ELSE account_balances[a]

\* UnitOfWork.commit, then the return of authorize_payment
Commit(t) ==
    /\ pc[t] = "commit"
    /\ account_balances' = [a \in BalanceAccounts |-> CommittedBalance(t, a)]
    /\ payments' = payments \cup tx[t].payments
    /\ ledger_entries' = ledger_entries \cup tx[t].ledger
    /\ outbox' = outbox \cup tx[t].outbox
    /\ idempotency_keys' = [k \in Keys |-> CommittedIdem(t, k)]
    /\ Return(t, IF result[t].status = "DECLINED" THEN result[t]
                  ELSE [status |-> "AUTHORIZED", payment_id |-> payment[t].id,
                        error_code |-> ""])
    /\ UNCHANGED <<outbox_processor, rate_limiter>>

\* The sessions holding the lock that the next statement of call t waits for
Blockers(t) ==
    CASE pc[t] \in {"create", "mark_completed", "mark_failed"} ->
           {u \in Calls \ {t} : /\ tx[u].idem.op # "none"
                                /\ cmd[u].idempotency_key = cmd[t].idempotency_key}
      [] pc[t] = "add_payment" ->
           {u \in Calls \ {t} : \E p \in tx[u].payments :
                                   p.idempotency_key = cmd[t].idempotency_key}
      [] pc[t] = "lock_payer" ->
           {u \in Calls \ {t} : payment[t].payer_account_id \in tx[u].locks}
      [] pc[t] = "lock_payee" ->
           {u \in Calls \ {t} : payment[t].payee_account_id \in tx[u].locks}
      [] OTHER -> {}

RECURSIVE WaitsOn(_, _)
WaitsOn(S, n) ==
    IF n = 0 THEN S
    ELSE WaitsOn(S \cup UNION {Blockers(u) : u \in S}, n - 1)

\* The database's deadlock detector aborts a session on a cycle of waits
DeadlockDetected(t) ==
    /\ t \in WaitsOn(Blockers(t), NumCalls)
    /\ Raise(t, "DeadlockDetectedError")
    /\ UNCHANGED <<outbox_processor, rate_limiter>>

\* Time passes the expires_at of a committed idempotency record
Expire(key) ==
    /\ idempotency_keys[key].status # "NONE"
    /\ ~idempotency_keys[key].expired
    /\ idempotency_keys' = [idempotency_keys EXCEPT ![key].expired = TRUE]
    /\ UNCHANGED <<account_balances, payments, ledger_entries, outbox, session>>
    /\ UNCHANGED <<outbox_processor, rate_limiter>>

\* Concurrent calls: transfers between the provisioned accounts
Next ==
    \/ \E t \in Calls : /\ pc[t] = "idle"
                        /\ \E c \in TransferCommand : AuthorizePayment(t, c)
    \/ \E t \in Calls : IdempotencyCreate(t)
    \/ \E t \in Calls : Validate(t)
    \/ \E t \in Calls : PaymentsAdd(t)
    \/ \E t \in Calls : GetForUpdatePayer(t)
    \/ \E t \in Calls : GetForUpdatePayee(t)
    \/ \E t \in Calls : ExecuteTransfer(t)
    \/ \E t \in Calls : OutboxAdd(t)
    \/ \E t \in Calls : MarkCompleted(t)
    \/ \E t \in Calls : MarkFailed(t)
    \/ \E t \in Calls : Commit(t)
    \/ \E t \in Calls : DeadlockDetected(t)
    \/ \E key \in Keys : Expire(key)

Spec == Init /\ [][Next]_vars

NoCallInFlight == \A u \in Calls : pc[u] \in {"idle", "done"}

\* One call after the other: every command the transport can pass
NextSeq ==
    \/ /\ NoCallInFlight
       /\ \E t \in Calls : /\ pc[t] = "idle"
                           /\ \E c \in AuthorizePaymentCommand : AuthorizePayment(t, c)
    \/ \E t \in Calls : IdempotencyCreate(t)
    \/ \E t \in Calls : Validate(t)
    \/ \E t \in Calls : PaymentsAdd(t)
    \/ \E t \in Calls : GetForUpdatePayer(t)
    \/ \E t \in Calls : GetForUpdatePayee(t)
    \/ \E t \in Calls : ExecuteTransfer(t)
    \/ \E t \in Calls : OutboxAdd(t)
    \/ \E t \in Calls : MarkCompleted(t)
    \/ \E t \in Calls : MarkFailed(t)
    \/ \E t \in Calls : Commit(t)
    \/ \E key \in Keys : Expire(key)

SpecSeq == Init /\ [][NextSeq]_vars

\* ------------------------------------------------- BalanceRepository.update

Versions == 0..(NumCalls + 1)

\* BalanceRepository.update called by a session of its own with any arguments:
\* the UPDATE waits for the row lock and is evaluated on the latest committed
\* row; rowcount 0 raises OptimisticLockError and the session rolls back
BalancesUpdate(t, account_id, new_available_balance, expected_version) ==
    /\ pc[t] = "idle"
    /\ \A u \in Calls : u < t => pc[u] # "idle"
    /\ ~BalanceLockedByOther(t, account_id)
    /\ IF UpdateMatches(account_id, expected_version)
       THEN /\ tx' = [tx EXCEPT
                        ![t].balances = {UpdatedBalance(account_id, new_available_balance)},
                        ![t].locks = {account_id}]
            /\ pc' = [pc EXCEPT ![t] = "updated"]
            /\ UNCHANGED <<db, cmd, payment, payer_balance, payee_balance, result>>
       ELSE Raise(t, OptimisticLockError("AccountBalance", account_id))
    /\ UNCHANGED <<outbox_processor, rate_limiter>>

\* session.commit() after the update
CommitUpdate(t) ==
    /\ pc[t] = "updated"
    /\ account_balances' = [a \in BalanceAccounts |-> CommittedBalance(t, a)]
    /\ UNCHANGED <<payments, ledger_entries, outbox, idempotency_keys>>
    /\ Return(t, [status |-> "UPDATED", payment_id |-> 0, error_code |-> ""])
    /\ UNCHANGED <<outbox_processor, rate_limiter>>

NextUpdate ==
    \/ \E t \in Calls, account_id \in accounts, new_available_balance \in Amounts,
          expected_version \in Versions :
            BalancesUpdate(t, account_id, new_available_balance, expected_version)
    \/ \E t \in Calls : CommitUpdate(t)

SpecUpdate == Init /\ [][NextUpdate]_vars

\* --------------------------------------------------------- OutboxProcessor

\* The constructor arguments of the processors
max_retries == MaxRetries
batch_size == [d \in Dispatchers |-> IF d = "d1" THEN MaxBatch ELSE 1]
topic_prefix == "payments"

Range(seq) == {seq[n] : n \in 1..Len(seq)}

\* The committed outbox row of an id
OutboxRow(id) == CHOOSE o \in outbox : o.id = id

\* The query without its filter on published_at
IsUnpublished_Any(o) == TRUE

\* WHERE published_at IS NULL
IsUnpublished(o) == o.published_at = "NULL"

\* The query without FOR UPDATE: no row is ever seen as locked
RowLockedByOther_NoLock(d, id) == FALSE

\* FOR UPDATE: the rows of a batch stay locked until its transaction ends
RowLockedByOther(d, id) == \E e \in Dispatchers \ {d} : id \in Range(events[e])

\* ORDER BY created_at: events are created in the order of their identifiers
RECURSIVE OrderByCreatedAt(_)
OrderByCreatedAt(ids) ==
    IF ids = {} THEN <<>>
    ELSE LET first == CHOOSE x \in ids : \A y \in ids : x <= y
         IN  <<first>> \o OrderByCreatedAt(ids \ {first})

Limit(seq, limit) == SubSeq(seq, 1, IF Len(seq) < limit THEN Len(seq) ELSE limit)

\* OutboxRepository.get_unpublished: ... FOR UPDATE SKIP LOCKED
GetUnpublishedRows(d, limit) ==
    Limit(OrderByCreatedAt({o.id : o \in {r \in outbox :
                                            IsUnpublished(r) /\ ~RowLockedByOther(d, r.id)}}),
          limit)

\* str.lower of the event types the service creates
Lower(s) == CASE s = "PaymentAuthorized" -> "paymentauthorized" [] OTHER -> s

Topic(event) == topic_prefix \o "." \o Lower(event.event_type)
DlqTopic == topic_prefix \o ".dlq"

\* The value of a record on the topic of an event type
Envelope(event) ==
    [event_id |-> event.id, aggregate_type |-> event.aggregate_type,
     aggregate_id |-> event.aggregate_id, event_type |-> event.event_type,
     payload |-> event.payload]

\* The value of a record on the DLQ topic
DlqEnvelope(event) ==
    [event_id |-> event.id, aggregate_type |-> event.aggregate_type,
     aggregate_id |-> event.aggregate_id, event_type |-> event.event_type,
     payload |-> event.payload, retry_count |-> event.retry_count,
     failed_at |-> "NOW", error |-> "max_retries_exceeded"]

\* The record the producer sends: topic, key and value
Message(topic, event) ==
    [topic |-> topic, key |-> event.aggregate_id,
     value |-> IF topic = DlqTopic THEN DlqEnvelope(event) ELSE Envelope(event)]

\* The positions of a processor inside _process_batch
InBatch == {"for_event", "mark_published", "send_to_dlq", "commit"}

\* start() up to the loop: the producer is created and started.  main() has
\* the task run this far before it can see a signal.
Start(d) ==
    /\ NoCallInFlight
    /\ dpc[d] = "start"
    /\ producer' = [producer EXCEPT ![d] = "AIOKafkaProducer"]
    /\ running' = [running EXCEPT ![d] = TRUE]
    /\ consecutive_failures' = [consecutive_failures EXCEPT ![d] = 0]
    /\ dpc' = [dpc EXCEPT ![d] = "poll"]
    /\ UNCHANGED <<db, session, rate_limiter, broker, events, pos, published_ids, dlq_events, dtx,
                   sent, attempted, producer_stops, stop_pc>>

\* _process_batch up to the start of its loop
GetUnpublished(d) ==
    /\ NoCallInFlight
    /\ dpc[d] = "poll"
    /\ running[d]
    /\ GetUnpublishedRows(d, batch_size[d]) # <<>>
    /\ events' = [events EXCEPT ![d] = GetUnpublishedRows(d, batch_size[d])]
    /\ dpc' = [dpc EXCEPT ![d] = "for_event"]
    /\ UNCHANGED <<db, session, rate_limiter, broker, pos, published_ids, dlq_events, dtx, sent,
                   attempted, loop, stop_pc>>

\* _process_batch finds nothing and returns 0: the counter of failures is
\* reset and the processor sleeps
EmptyPoll(d) ==
    /\ NoCallInFlight
    /\ dpc[d] = "poll"
    /\ running[d]
    /\ GetUnpublishedRows(d, batch_size[d]) = <<>>
    /\ consecutive_failures' = [consecutive_failures EXCEPT ![d] = 0]
    /\ UNCHANGED <<db, session, rate_limiter, broker, dpc, events, pos, published_ids, dlq_events,
                   dtx, sent, attempted, running, producer, producer_stops, stop_pc>>

\* for event in events: the next iteration, or the end of the loop
NextEvent(d) ==
    IF pos[d] < Len(events[d])
    THEN pos' = [pos EXCEPT ![d] = @ + 1] /\ dpc' = dpc
    ELSE pos' = [pos EXCEPT ![d] = 1] /\ dpc' = [dpc EXCEPT ![d] = "mark_published"]

\* A retry budget that is never used up
RetriesExhausted_Never(event) == FALSE

\* if event.retry_count >= self._max_retries
RetriesExhausted(event) == event.retry_count >= max_retries

\* if event.retry_count >= self._max_retries: dlq_events.append(event)
DeferToDlq(d) ==
    /\ NoCallInFlight
    /\ dpc[d] = "for_event"
    /\ RetriesExhausted(OutboxRow(events[d][pos[d]]))
    /\ dlq_events' = [dlq_events EXCEPT ![d] = Append(@, events[d][pos[d]])]
    /\ NextEvent(d)
    /\ UNCHANGED <<db, session, rate_limiter, broker, events, published_ids, dtx, sent, attempted,
                   loop, stop_pc>>

\* _publish_event reporting success whatever the broker answered
PublishEventReturns_AlwaysTrue(acked) == TRUE

\* _publish_event: True after send_and_wait, False on KafkaError
PublishEventReturns(acked) == acked

\* A failed publish that leaves the retry count alone
HandleRetry_Skipped(d, event) == dtx' = dtx

\* _handle_retry: increment_retry_count(event.id)
HandleRetry(d, event) == dtx' = [dtx EXCEPT ![d].retried = @ \cup {event.id}]

\* success = _publish_event(event), then published_ids.append or _handle_retry.
\* Without a producer _publish_event returns False and sends nothing.  The
\* broker acknowledges the record, or send_and_wait raises KafkaError with the
\* record stored or not.
PublishEvent(d) ==
    /\ NoCallInFlight
    /\ dpc[d] = "for_event"
    /\ ~RetriesExhausted(OutboxRow(events[d][pos[d]]))
    /\ LET event == OutboxRow(events[d][pos[d]])
           message == Message(Topic(event), event)
       IN  IF producer[d] = "None"
           THEN /\ HandleRetry(d, event)
                /\ UNCHANGED <<broker, sent, attempted, published_ids>>
           ELSE \E delivered, acked \in BOOLEAN :
                  /\ acked => delivered
                  /\ attempted' = [attempted EXCEPT ![d] = @ \cup {message}]
                  /\ broker' = IF delivered THEN broker \cup {message} ELSE broker
                  /\ sent' = [sent EXCEPT ![d] = IF acked THEN @ \cup {message} ELSE @]
                  /\ IF PublishEventReturns(acked)
                     THEN /\ published_ids' = [published_ids EXCEPT ![d] = @ \cup {event.id}]
                          /\ dtx' = dtx
                     ELSE /\ published_ids' = published_ids
                          /\ HandleRetry(d, event)
    /\ NextEvent(d)
    /\ UNCHANGED <<db, session, rate_limiter, events, dlq_events, loop, stop_pc>>

\* if published_ids: mark_published(published_ids)
MarkPublished(d) ==
    /\ NoCallInFlight
    /\ dpc[d] = "mark_published"
    /\ dtx' = [dtx EXCEPT ![d].published = @ \cup published_ids[d]]
    /\ dpc' = [dpc EXCEPT ![d] = IF dlq_events[d] # <<>> THEN "send_to_dlq" ELSE "commit"]
    /\ UNCHANGED <<db, session, rate_limiter, broker, events, pos, published_ids, dlq_events, sent,
                   attempted, loop, stop_pc>>

\* A DLQ publish that marks the row whatever the broker answered
DlqMarks_Always(acked) == TRUE

\* A DLQ publish that never marks the row
DlqMarks_Never(acked) == FALSE

\* mark_published([event.id]) follows send_and_wait inside the try
DlqMarks(acked) == acked

\* _send_to_dlq: it returns at once without a producer; otherwise one
\* iteration of its loop, where a KafkaError is logged and the row left alone
SendToDlq(d) ==
    /\ NoCallInFlight
    /\ dpc[d] = "send_to_dlq"
    /\ IF producer[d] = "None"
       THEN /\ pos' = [pos EXCEPT ![d] = 1]
            /\ dpc' = [dpc EXCEPT ![d] = "commit"]
            /\ UNCHANGED <<broker, sent, attempted, dtx>>
       ELSE /\ \E delivered, acked \in BOOLEAN :
                 LET event == OutboxRow(dlq_events[d][pos[d]])
                     message == Message(DlqTopic, event)
                 IN  /\ acked => delivered
                     /\ attempted' = [attempted EXCEPT ![d] = @ \cup {message}]
                     /\ broker' = IF delivered THEN broker \cup {message} ELSE broker
                     /\ sent' = [sent EXCEPT ![d] = IF acked THEN @ \cup {message} ELSE @]
                     /\ dtx' = [dtx EXCEPT ![d].published =
                                  IF DlqMarks(acked) THEN @ \cup {event.id} ELSE @]
            /\ IF pos[d] < Len(dlq_events[d])
               THEN pos' = [pos EXCEPT ![d] = @ + 1] /\ dpc' = dpc
               ELSE pos' = [pos EXCEPT ![d] = 1] /\ dpc' = [dpc EXCEPT ![d] = "commit"]
    /\ UNCHANGED <<db, session, rate_limiter, events, published_ids, dlq_events, loop, stop_pc>>

\* The session of a batch ends: its locals and row locks are gone
EndBatch(d) ==
    /\ events' = [events EXCEPT ![d] = <<>>]
    /\ pos' = [pos EXCEPT ![d] = 1]
    /\ published_ids' = [published_ids EXCEPT ![d] = {}]
    /\ dlq_events' = [dlq_events EXCEPT ![d] = <<>>]
    /\ dtx' = [dtx EXCEPT ![d] = EmptyBatchTx]
    /\ sent' = [sent EXCEPT ![d] = {}]
    /\ attempted' = [attempted EXCEPT ![d] = {}]

\* The outbox row as the commit of the batch of d leaves it:
\* SET published_at = NOW(), SET retry_count = retry_count + 1
CommittedRow(d, o) ==
    [o EXCEPT !.published_at = IF o.id \in dtx[d].published THEN "NOW" ELSE @,
              !.retry_count = IF o.id \in dtx[d].retried THEN @ + 1 ELSE @]

\* session.commit() and the return of _process_batch with the number of
\* events: self._consecutive_failures = 0
CommitBatch(d) ==
    /\ NoCallInFlight
    /\ dpc[d] = "commit"
    /\ outbox' = {CommittedRow(d, o) : o \in outbox}
    /\ EndBatch(d)
    /\ dpc' = [dpc EXCEPT ![d] = "poll"]
    /\ consecutive_failures' = [consecutive_failures EXCEPT ![d] = 0]
    /\ UNCHANGED <<account_balances, payments, ledger_entries, idempotency_keys,
                   session, rate_limiter, broker, running, producer, producer_stops,
                   stop_pc>>

\* stop() as far as its await: self._running = False, and with a producer
\* the call of its stop(); without one stop() is over
StopBegin(d) ==
    /\ running' = [running EXCEPT ![d] = FALSE]
    /\ producer_stops' = [producer_stops EXCEPT ![d] =
                            IF producer[d] # "None" THEN @ + 1 ELSE @]
    /\ producer' = producer

\* finally: await self.stop(), entered from the loop
FinallyStop(d) ==
    /\ StopBegin(d)
    /\ dpc' = [dpc EXCEPT ![d] = IF producer[d] # "None" THEN "stopping" ELSE "exited"]

\* A breaker that never opens
BreakerOpen_Never(failures) == FALSE

\* if self._consecutive_failures >= self.MAX_CONSECUTIVE_FAILURES: break
BreakerOpen(failures) == failures >= MAX_CONSECUTIVE_FAILURES

\* A rollback that keeps the writes of the batch
RolledBackRow_Committed(d, o) == CommittedRow(d, o)

\* The outbox row as the rollback of the session of the batch of d leaves it:
\* except Exception: await session.rollback(); raise
RolledBackRow(d, o) == o

\* An exception other than a caught KafkaError inside _process_batch, from
\* opening the session on: Database.session rolls back, start() counts the
\* failure and sleeps, or breaks out of the loop into its finally
ProcessBatchRaises(d) ==
    /\ NoCallInFlight
    /\ dpc[d] \in InBatch \cup {"poll"}
    /\ running[d] \/ dpc[d] \in InBatch
    /\ EndBatch(d)
    /\ consecutive_failures' = [consecutive_failures EXCEPT ![d] = @ + 1]
    /\ IF BreakerOpen(consecutive_failures[d] + 1)
       THEN FinallyStop(d)
       ELSE dpc' = [dpc EXCEPT ![d] = "poll"] /\ UNCHANGED <<running, producer, producer_stops>>
    /\ outbox' = {RolledBackRow(d, o) : o \in outbox}
    /\ UNCHANGED <<account_balances, payments, ledger_entries, idempotency_keys,
                   session, rate_limiter, broker, stop_pc>>

\* while self._running: the flag is found false and the loop ends
LoopExit(d) ==
    /\ NoCallInFlight
    /\ dpc[d] = "poll"
    /\ ~running[d]
    /\ FinallyStop(d)
    /\ UNCHANGED <<db, session, rate_limiter, broker, events, pos, published_ids, dlq_events, dtx,
                   sent, attempted, consecutive_failures, stop_pc>>

\* stop() after its await: self._producer = None
StopReturns(d) ==
    /\ NoCallInFlight
    /\ dpc[d] = "stopping"
    /\ producer' = [producer EXCEPT ![d] = "None"]
    /\ dpc' = [dpc EXCEPT ![d] = "exited"]
    /\ UNCHANGED <<db, session, rate_limiter, broker, events, pos, published_ids, dlq_events, dtx,
                   sent, attempted, running, consecutive_failures, producer_stops,
                   stop_pc>>

\* main() after the signal: await processor.stop(), as far as its await
MainStop(d) ==
    /\ NoCallInFlight
    /\ stop_pc[d] = "wait"
    /\ dpc[d] # "start"
    /\ StopBegin(d)
    /\ stop_pc' = [stop_pc EXCEPT ![d] = IF producer[d] # "None" THEN "stopping" ELSE "cancel"]
    /\ UNCHANGED <<db, session, rate_limiter, broker, dpc, events, pos, published_ids, dlq_events,
                   dtx, sent, attempted, consecutive_failures>>

\* processor.stop() called by main() after its await: self._producer = None,
\* and without another await processor_task.cancel() and await processor_task:
\* the task runs no statement with the producer released, CancelledError is
\* raised at the await it is suspended in, the session of a batch rolls back,
\* and the finally of start() calls stop(), which finds no producer
MainStopReturns(d) ==
    /\ NoCallInFlight
    /\ stop_pc[d] = "stopping"
    /\ producer' = [producer EXCEPT ![d] = "None"]
    /\ stop_pc' = [stop_pc EXCEPT ![d] = "done"]
    /\ EndBatch(d)
    /\ dpc' = [dpc EXCEPT ![d] = "exited"]
    /\ UNCHANGED <<db, session, rate_limiter, broker, running, consecutive_failures,
                   producer_stops>>

\* processor_task.cancel() and await processor_task after a stop() that found
\* no producer and returned at once
Cancel(d) ==
    /\ NoCallInFlight
    /\ stop_pc[d] = "cancel"
    /\ stop_pc' = [stop_pc EXCEPT ![d] = "done"]
    /\ EndBatch(d)
    /\ dpc' = [dpc EXCEPT ![d] = "exited"]
    /\ UNCHANGED <<db, session, rate_limiter, broker, loop>>

\* stop() called by an owner that does not cancel the task of start(), as far
\* as its await
StopCall(d) == MainStop(d)

\* That stop() after its await: self._producer = None, and the task of
\* start() goes on with the processor
StopCallReturns(d) ==
    /\ NoCallInFlight
    /\ stop_pc[d] = "stopping"
    /\ producer' = [producer EXCEPT ![d] = "None"]
    /\ stop_pc' = [stop_pc EXCEPT ![d] = "done"]
    /\ UNCHANGED <<db, session, rate_limiter, broker, dpc, events, pos, published_ids, dlq_events,
                   dtx, sent, attempted, running, consecutive_failures, producer_stops>>

\* The worker process is killed and started again: its connection is closed,
\* which rolls the batch back, and main() builds a new processor
ProcessKilled(d) ==
    /\ NoCallInFlight
    /\ dpc[d] \in InBatch
    /\ EndBatch(d)
    /\ dpc' = [dpc EXCEPT ![d] = "start"]
    /\ running' = [running EXCEPT ![d] = FALSE]
    /\ producer' = [producer EXCEPT ![d] = "None"]
    /\ consecutive_failures' = [consecutive_failures EXCEPT ![d] = 0]
    /\ UNCHANGED <<db, session, rate_limiter, broker, producer_stops, stop_pc>>

OutboxCommand == [idempotency_key : Keys, payer_account_id : {"A"},
                  payee_account_id : FundedAccountIds, amount_cents : {1},
                  currency : {"USD"}]

\* Calls one after the other.  The statements of a call before its commit
\* touch no committed outbox row, so a processor step commutes with them and
\* is taken between calls.
NextCalls ==
    \/ /\ NoCallInFlight
       /\ \E t \in Calls : /\ pc[t] = "idle"
                           /\ \E c \in OutboxCommand : AuthorizePayment(t, c)
    \/ \E t \in Calls : IdempotencyCreate(t)
    \/ \E t \in Calls : Validate(t)
    \/ \E t \in Calls : PaymentsAdd(t)
    \/ \E t \in Calls : GetForUpdatePayer(t)
    \/ \E t \in Calls : GetForUpdatePayee(t)
    \/ \E t \in Calls : ExecuteTransfer(t)
    \/ \E t \in Calls : OutboxAdd(t)
    \/ \E t \in Calls : MarkCompleted(t)
    \/ \E t \in Calls : MarkFailed(t)
    \/ \E t \in Calls : Commit(t)

\* The calls next to worker processes that are killed and restarted but never
\* asked to stop
NextOutbox ==
    \/ NextCalls
    \/ \E d \in Dispatchers : Start(d)
    \/ \E d \in Dispatchers : GetUnpublished(d)
    \/ \E d \in Dispatchers : EmptyPoll(d)
    \/ \E d \in Dispatchers : DeferToDlq(d)
    \/ \E d \in Dispatchers : PublishEvent(d)
    \/ \E d \in Dispatchers : MarkPublished(d)
    \/ \E d \in Dispatchers : SendToDlq(d)
    \/ \E d \in Dispatchers : CommitBatch(d)
    \/ \E d \in Dispatchers : ProcessKilled(d)

SpecOutbox == Init /\ [][NextOutbox]_vars

\* One worker process with its loop, its failures and its shutdown
LoopDispatchers == {"d1"}

NextLoop ==
    \/ NextCalls
    \/ \E d \in LoopDispatchers : Start(d)
    \/ \E d \in LoopDispatchers : GetUnpublished(d)
    \/ \E d \in LoopDispatchers : EmptyPoll(d)
    \/ \E d \in LoopDispatchers : DeferToDlq(d)
    \/ \E d \in LoopDispatchers : PublishEvent(d)
    \/ \E d \in LoopDispatchers : MarkPublished(d)
    \/ \E d \in LoopDispatchers : SendToDlq(d)
    \/ \E d \in LoopDispatchers : CommitBatch(d)
    \/ \E d \in LoopDispatchers : ProcessBatchRaises(d)
    \/ \E d \in LoopDispatchers : LoopExit(d)
    \/ \E d \in LoopDispatchers : StopReturns(d)
    \/ \E d \in LoopDispatchers : MainStop(d)
    \/ \E d \in LoopDispatchers : MainStopReturns(d)
    \/ \E d \in LoopDispatchers : Cancel(d)

SpecLoop == Init /\ [][NextLoop]_vars

\* One processor whose owner calls stop() and lets the task of start() end by
\* itself
NextStop ==
    \/ NextCalls
    \/ \E d \in LoopDispatchers : Start(d)
    \/ \E d \in LoopDispatchers : GetUnpublished(d)
    \/ \E d \in LoopDispatchers : EmptyPoll(d)
    \/ \E d \in LoopDispatchers : DeferToDlq(d)
    \/ \E d \in LoopDispatchers : PublishEvent(d)
    \/ \E d \in LoopDispatchers : MarkPublished(d)
    \/ \E d \in LoopDispatchers : SendToDlq(d)
    \/ \E d \in LoopDispatchers : CommitBatch(d)
    \/ \E d \in LoopDispatchers : ProcessBatchRaises(d)
    \/ \E d \in LoopDispatchers : LoopExit(d)
    \/ \E d \in LoopDispatchers : StopReturns(d)
    \/ \E d \in LoopDispatchers : StopCall(d)
    \/ \E d \in LoopDispatchers : StopCallReturns(d)

SpecStop == Init /\ [][NextStop]_vars

\* A call that has begun runs to its end
CallStep ==
    \E t \in Calls :
        \/ IdempotencyCreate(t) \/ Validate(t) \/ PaymentsAdd(t)
        \/ GetForUpdatePayer(t) \/ GetForUpdatePayee(t) \/ ExecuteTransfer(t)
        \/ OutboxAdd(t) \/ MarkCompleted(t) \/ MarkFailed(t) \/ Commit(t)

\* The task of start() and the shutdown of main() go on when they can; a
\* raising batch and a signal are not owed
LoopStep(d) ==
    \/ Start(d) \/ GetUnpublished(d) \/ EmptyPoll(d) \/ DeferToDlq(d)
    \/ PublishEvent(d) \/ MarkPublished(d) \/ SendToDlq(d) \/ CommitBatch(d)
    \/ LoopExit(d) \/ StopReturns(d) \/ MainStopReturns(d) \/ Cancel(d)

FairSpecLoop ==
    /\ SpecLoop
    /\ WF_vars(CallStep)
    /\ \A d \in LoopDispatchers : WF_vars(LoopStep(d))

\* send_and_wait returns: the broker acknowledged the record
AckedPublish(d) == PublishEvent(d) /\ sent'[d] # sent[d]
AckedDlq(d) == SendToDlq(d) /\ sent'[d] # sent[d]

\* Processors whose loops keep running against an available database
NextDispatch ==
    \/ NextCalls
    \/ \E d \in Dispatchers : Start(d)
    \/ \E d \in Dispatchers : GetUnpublished(d)
    \/ \E d \in Dispatchers : EmptyPoll(d)
    \/ \E d \in Dispatchers : DeferToDlq(d)
    \/ \E d \in Dispatchers : PublishEvent(d)
    \/ \E d \in Dispatchers : MarkPublished(d)
    \/ \E d \in Dispatchers : SendToDlq(d)
    \/ \E d \in Dispatchers : CommitBatch(d)

\* ... and a broker that acknowledges a send again and again tried
FairSpecDispatch ==
    /\ Init /\ [][NextDispatch]_vars
    /\ WF_vars(CallStep)
    /\ \A d \in Dispatchers :
          /\ WF_vars(Start(d) \/ GetUnpublished(d) \/ DeferToDlq(d) \/ PublishEvent(d)
                       \/ MarkPublished(d) \/ SendToDlq(d) \/ CommitBatch(d))
          /\ SF_vars(AckedPublish(d))
          /\ SF_vars(AckedDlq(d))

\* The outbox as a component: any caller of OutboxRepository.add may add
\* another event of an aggregate that has one already
AggregateIds == {ULID(1, 0)}

\* OutboxEvent.create for the n-th event added
OutboxEventOf(n, aggregate_id) ==
    [id |-> ULID(n, 3), aggregate_type |-> "Payment", aggregate_id |-> aggregate_id,
     event_type |-> "PaymentAuthorized", payload |-> [payment_id |-> aggregate_id],
     published_at |-> "NULL", retry_count |-> 0]

\* OutboxRepository.add and the commit of its session
AddAndCommit(aggregate_id) ==
    /\ Cardinality(outbox) < MaxEvents
    /\ outbox' = outbox \cup {OutboxEventOf(Cardinality(outbox) + 1, aggregate_id)}
    /\ UNCHANGED <<account_balances, payments, ledger_entries, idempotency_keys,
                   session, outbox_processor, rate_limiter>>

NextAggregate ==
    \/ \E aggregate_id \in AggregateIds : AddAndCommit(aggregate_id)
    \/ \E d \in Dispatchers : Start(d)
    \/ \E d \in Dispatchers : GetUnpublished(d)
    \/ \E d \in Dispatchers : EmptyPoll(d)
    \/ \E d \in Dispatchers : DeferToDlq(d)
    \/ \E d \in Dispatchers : PublishEvent(d)
    \/ \E d \in Dispatchers : MarkPublished(d)
    \/ \E d \in Dispatchers : SendToDlq(d)
    \/ \E d \in Dispatchers : CommitBatch(d)

SpecAggregate == Init /\ [][NextAggregate]_vars

\* ------------------------------------------------ SlidingWindowRateLimiter

\* ZREMRANGEBYSCORE that removes nothing
ZRemRangeByScore_Nothing(zset, min, max) == zset

\* ZREMRANGEBYSCORE key min max: both ends are inclusive
ZRemRangeByScore(zset, min, max) == {e \in zset : ~(min <= e.score /\ e.score <= max)}

ZCard(zset) == Cardinality(zset)

\* str(now): the decimal digits of the timestamp
Digit(d) == CASE d = 0 -> "0" [] d = 1 -> "1" [] d = 2 -> "2" [] d = 3 -> "3"
              [] d = 4 -> "4" [] d = 5 -> "5" [] d = 6 -> "6" [] d = 7 -> "7"
              [] d = 8 -> "8" [] OTHER -> "9"

RECURSIVE Str(_)
Str(now) == IF now < 10 THEN Digit(now) ELSE Str(now \div 10) \o Digit(now % 10)

\* ZADD key score member: a member the set holds already keeps its place and
\* takes the score
ZAdd(zset, member, score) ==
    {e \in zset : e.member # member} \cup {[member |-> member, score |-> score]}

\* EXPIRE that leaves the time to live of the key alone
Expire_Keep(key, at) == ttl[key]

\* EXPIRE key window_seconds, executed at the instant `at`
ExpireAt(key, at) == at + window_seconds

\* remaining without the slot of the current request
Remaining_NoCurrent(current_count) ==
    IF max_requests - current_count > 0 THEN max_requests - current_count ELSE 0

\* remaining = max(0, self._max_requests - current_count - 1)
Remaining(current_count) ==
    IF max_requests - current_count - 1 > 0 THEN max_requests - current_count - 1 ELSE 0

IsAllowedDecision_AfterAdd(current_count) == current_count + 1 < max_requests

\* is_allowed = current_count < self._max_requests
IsAllowedDecision(current_count) == current_count < max_requests

\* The clock of the hosts and of the store advances; the store deletes the
\* keys whose time to live is over
Advance(seconds) ==
    /\ clock' = clock + seconds
    /\ zsets' = [k \in DOMAIN zsets |->
                   IF ttl[k] # NoTtl /\ ttl[k] <= clock + seconds THEN {} ELSE zsets[k]]
    /\ ttl' = [k \in DOMAIN ttl |->
                 IF ttl[k] # NoTtl /\ ttl[k] <= clock + seconds THEN NoTtl ELSE ttl[k]]
    /\ UNCHANGED <<db, session, outbox_processor, rl_pc, rl_call, rl_result>>

\* One second passes
Tick == clock < MaxTime /\ Advance(1)

NoRateCallInFlight == \A c \in RateCalls : rl_pc[c] \in {"idle", "done"}

\* No request arrives for more than the window
Pause == clock <= MaxTime /\ NoRateCallInFlight /\ Advance(window_seconds + 1)

\* Requests are numbered in the order in which they begin
NextToBegin(c) == rl_pc[c] = "idle" /\ \A b \in RateCalls : b < c => rl_pc[b] # "idle"

\* is_allowed up to its await: key, now and the pipeline are built
IsAllowedBegin(c, key_prefix, identifier) ==
    /\ NextToBegin(c)
    /\ rl_call' = [rl_call EXCEPT ![c] = [op |-> "is_allowed", key_prefix |-> key_prefix,
                                           identifier |-> identifier,
                                           key |-> Key(key_prefix, identifier),
                                           now |-> clock]]
    /\ rl_pc' = [rl_pc EXCEPT ![c] = "execute"]
    /\ UNCHANGED <<db, session, outbox_processor, clock, zsets, ttl, rl_result>>

\* await pipe.execute(): the four commands run in the store as one
\* transaction, then the decision is taken from the second result
PipeExecute(c) ==
    /\ rl_pc[c] = "execute"
    /\ LET key == rl_call[c].key
           now == rl_call[c].now
           window_start == now - window_seconds
           trimmed == ZRemRangeByScore(zsets[key], 0, window_start)
           current_count == ZCard(trimmed)
       IN  /\ zsets' = [zsets EXCEPT ![key] = ZAdd(trimmed, Str(now), now)]
           /\ ttl' = [ttl EXCEPT ![key] = ExpireAt(key, clock)]
           /\ rl_result' = [rl_result EXCEPT ![c] =
                              [is_allowed |-> IsAllowedDecision(current_count),
                               remaining |-> Remaining(current_count)]]
    /\ rl_pc' = [rl_pc EXCEPT ![c] = "done"]
    /\ UNCHANGED <<db, session, outbox_processor, clock, rl_call>>

\* get_remaining up to its first await
GetRemainingBegin(c, key_prefix, identifier) ==
    /\ NextToBegin(c)
    /\ rl_call' = [rl_call EXCEPT ![c] = [op |-> "get_remaining", key_prefix |-> key_prefix,
                                           identifier |-> identifier,
                                           key |-> Key(key_prefix, identifier),
                                           now |-> clock]]
    /\ rl_pc' = [rl_pc EXCEPT ![c] = "zremrangebyscore"]
    /\ UNCHANGED <<db, session, outbox_processor, clock, zsets, ttl, rl_result>>

\* await self._redis.zremrangebyscore(key, 0, window_start)
GetRemainingTrim(c) ==
    /\ rl_pc[c] = "zremrangebyscore"
    /\ zsets' = [zsets EXCEPT ![rl_call[c].key] =
                   ZRemRangeByScore(@, 0, rl_call[c].now - window_seconds)]
    /\ rl_pc' = [rl_pc EXCEPT ![c] = "zcard"]
    /\ UNCHANGED <<db, session, outbox_processor, clock, ttl, rl_call, rl_result>>

\* current_count = await self._redis.zcard(key) and the return
GetRemainingCard(c) ==
    /\ rl_pc[c] = "zcard"
    /\ rl_result' = [rl_result EXCEPT ![c] =
                       [is_allowed |-> TRUE,
                        remaining |-> LET count == ZCard(zsets[rl_call[c].key])
                                      IN  IF max_requests - count > 0
                                          THEN max_requests - count ELSE 0]]
    /\ rl_pc' = [rl_pc EXCEPT ![c] = "done"]
    /\ UNCHANGED <<db, session, outbox_processor, clock, zsets, ttl, rl_call>>

\* The limiter GrpcServer.start builds, with the default key prefix
ServerPrefixes == {"ratelimit:"}

\* Concurrent requests to the limiter of the server
NextRate ==
    \/ Tick
    \/ Pause
    \/ \E c \in RateCalls, key_prefix \in ServerPrefixes, identifier \in Identifiers :
          IsAllowedBegin(c, key_prefix, identifier)
    \/ \E c \in RateCalls : PipeExecute(c)

SpecRate == Init /\ [][NextRate]_vars

\* The requests made one after the other to limiters with different prefixes
KeyCalls == 1..NumKeyCalls

\* Requests one after the other to limiters with different prefixes
NextRateKeys ==
    \/ Tick
    \/ /\ NoRateCallInFlight
       /\ \E c \in KeyCalls, key_prefix \in KeyPrefixes, identifier \in Identifiers :
             IsAllowedBegin(c, key_prefix, identifier)
    \/ \E c \in KeyCalls : PipeExecute(c)
    \/ /\ NoRateCallInFlight
       /\ \E c \in KeyCalls, key_prefix \in KeyPrefixes, identifier \in Identifiers :
             GetRemainingBegin(c, key_prefix, identifier)
    \/ \E c \in KeyCalls : GetRemainingTrim(c)
    \/ \E c \in KeyCalls : GetRemainingCard(c)

SpecRateKeys == Init /\ [][NextRateKeys]_vars

\* ------------------------------------------------------------------ claims

Returned(t, status) == pc[t] = "done" /\ result[t].status = status

PaymentsOfKey(key) == {p \in payments : p.idempotency_key = key}
EntriesOfPayment(id) == {e \in ledger_entries : e.payment_id = id}
EventsOfPayment(id) == {o \in outbox : o.aggregate_id = id}

\* C1: no overdraft - in every committed state every balance row has
\* available_balance_cents >= 0, whatever the interleaving of the calls.
C1_NoOverdraft ==
    \A a \in BalanceAccounts : account_balances[a].available_balance_cents >= 0

\* Two calls passed validation against the same payer balance; one committed
\* and drained it, the other failed the re-check under the lock.
C1_Witness ==
    \E t, u \in Calls :
        /\ Returned(t, "AUTHORIZED")
        /\ Returned(u, "RAISED") /\ result[u].error_code = "ValueError"
        /\ \E a \in FundedAccountIds : account_balances[a].available_balance_cents = 0

\* C2: at most one authorization per key - no two committed payment rows share
\* an idempotency key (the idempotency record of a key is one row of a table
\* keyed by it, so at most one record of the key is COMPLETED).
C2_AtMostOnePerKey ==
    \A k \in Keys : Cardinality(PaymentsOfKey(k)) <= 1

\* A second insert of a payment with the key of a committed payment was
\* rejected although no record had expired: both calls had read 'no record'
\* (or the same FAILED record) before the first one committed.
C2_Witness ==
    /\ \E t \in Calls : Returned(t, "RAISED") /\ result[t].error_code = "IntegrityError"
    /\ \A k \in Keys : ~idempotency_keys[k].expired

\* C3: a call whose key has an unexpired COMPLETED record returns DUPLICATE
\* with the stored payment_id whatever its other parameters, at once and
\* without a commit, and leaves all tables and all sessions as they were.
C3_ReplayHasNoEffect ==
    [][\A t \in Calls, c \in TransferCommand :
         (/\ AuthorizePayment(t, c)
          /\ idempotency_keys[c.idempotency_key].status = "COMPLETED"
          /\ ~idempotency_keys[c.idempotency_key].expired)
         => /\ pc'[t] = "done"
            /\ result'[t] = [status |-> "DUPLICATE",
                             payment_id |-> idempotency_keys[c.idempotency_key].payment_id,
                             error_code |-> ""]
            /\ tx' = tx
            /\ UNCHANGED db]_vars

\* A replay returned DUPLICATE with the id of the committed payment.
C3_Witness ==
    \E t \in Calls :
        /\ Returned(t, "DUPLICATE")
        /\ \E p \in payments : p.id = result[t].payment_id

\* C4 (as claimed): once the record of a key is committed COMPLETED and has
\* not expired, no later step changes its status or its payment_id.
C4_CompletedIsFinal ==
    [][\A k \in Keys :
         (idempotency_keys[k].status = "COMPLETED" /\ ~idempotency_keys[k].expired)
         => /\ idempotency_keys'[k].status = "COMPLETED"
            /\ idempotency_keys'[k].payment_id = idempotency_keys[k].payment_id]_vars

\* C5: double entry - every committed payment has exactly two ledger entries,
\* a DEBIT on the payer and a CREDIT on the payee, both of the payment's
\* amount, and every ledger entry belongs to a committed payment.
C5_DoubleEntry ==
    /\ \A p \in payments :
         /\ Cardinality(EntriesOfPayment(p.id)) = 2
         /\ \E d, c \in EntriesOfPayment(p.id) :
              /\ d.entry_type = "DEBIT" /\ d.account_id = p.payer_account_id
              /\ d.amount_cents = p.amount_cents
              /\ c.entry_type = "CREDIT" /\ c.account_id = p.payee_account_id
              /\ c.amount_cents = p.amount_cents
    /\ \A e \in ledger_entries : \E p \in payments : p.id = e.payment_id

\* Two payments are committed, one in each direction, with four entries.
C5_Witness ==
    /\ Cardinality(payments) = 2
    /\ Cardinality(ledger_entries) = 4
    /\ \E p, q \in payments : p.payer_account_id = q.payee_account_id

CommitsAuthorized(t) ==
    pc[t] = "commit" /\ pc'[t] = "done" /\ result'[t].status = "AUTHORIZED"

\* C6: the commit of an authorization of amount a from P to Q sets P.available
\* to the locked P.available - a and Q.available to the locked Q.available + a,
\* raises the version of these two rows by one and changes no other row.
C6_AuthorizedEffect ==
    [][\A t \in Calls :
         CommitsAuthorized(t) =>
           LET P == payment[t].payer_account_id
               Q == payment[t].payee_account_id
               a == payment[t].amount_cents
           IN  /\ P # Q
               /\ account_balances'[P] =
                    [available_balance_cents |-> payer_balance[t].available_balance_cents - a,
                     version |-> account_balances[P].version + 1]
               /\ account_balances'[Q] =
                    [available_balance_cents |-> payee_balance[t].available_balance_cents + a,
                     version |-> account_balances[Q].version + 1]
               /\ \A o \in BalanceAccounts \ {P, Q} :
                    account_balances'[o] = account_balances[o]]_vars

\* The boundary case: an authorization of the payer's whole balance committed
\* and left the payer at exactly 0.
C6_Witness ==
    \E t \in Calls :
        /\ Returned(t, "AUTHORIZED")
        /\ \E p \in payments, e \in ledger_entries :
             /\ p.id = result[t].payment_id /\ e.payment_id = p.id
             /\ e.entry_type = "DEBIT" /\ e.balance_after_cents = 0
             /\ account_balances[p.payer_account_id].available_balance_cents = 0

\* C7: balance-after correctness - every ledger entry a commit adds carries
\* the available balance that this commit writes to the entry's account.
C7_BalanceAfter ==
    [][\A e \in ledger_entries' \ ledger_entries :
         e.balance_after_cents =
           account_balances'[e.account_id].available_balance_cents]_vars

\* Two authorizations touching the same account both committed, the second
\* one on top of the first one's balance.
C7_Witness ==
    /\ Cardinality(payments) = 2
    /\ \E a \in FundedAccountIds : account_balances[a].version = 3
    /\ \E e \in ledger_entries :
         e.balance_after_cents # account_balances[e.account_id].available_balance_cents

\* C8: outbox durability and atomicity - every committed payment has exactly
\* one outbox row, of type PaymentAuthorized with aggregate_id and
\* payload.payment_id equal to its id, and every outbox row is the row of a
\* committed payment.
C8_OutboxOneToOne ==
    /\ \A p \in payments :
         /\ Cardinality(EventsOfPayment(p.id)) = 1
         /\ \A o \in EventsOfPayment(p.id) :
              /\ o.event_type = "PaymentAuthorized" /\ o.aggregate_type = "Payment"
              /\ o.payload.payment_id = p.id
    /\ \A o \in outbox :
         \E p \in payments : p.id = o.aggregate_id /\ p.id = o.payload.payment_id
    /\ Cardinality(outbox) = Cardinality(payments)

\* One call committed its payment and its outbox row, another one was rolled
\* back after validation, and there is one outbox row.
C8_Witness ==
    /\ \E t, u \in Calls : Returned(t, "AUTHORIZED") /\ Returned(u, "RAISED")
    /\ Cardinality(outbox) = 1

CommitsDeclined(t) ==
    pc[t] = "commit" /\ pc'[t] = "done" /\ result[t].status = "DECLINED"

\* C9: a validation decline leaves only the idempotency mark - the commit of a
\* declined call sets the record of its key to FAILED and changes nothing
\* else; the result returned is DECLINED with an empty payment_id and an error
\* code; a call returns DECLINED only through such a commit.
C9_DeclineOnlyMarksFailed ==
    [][\A t \in Calls :
         /\ CommitsDeclined(t) =>
              /\ idempotency_keys'[cmd[t].idempotency_key].status = "FAILED"
              /\ \A k \in Keys \ {cmd[t].idempotency_key} :
                   idempotency_keys'[k] = idempotency_keys[k]
              /\ UNCHANGED <<account_balances, payments, ledger_entries, outbox>>
              /\ result'[t] = result[t]
              /\ result[t].payment_id = 0
              /\ result[t].error_code \in {"INVALID_AMOUNT", "SAME_ACCOUNT",
                                           "ACCOUNT_NOT_FOUND", "INSUFFICIENT_FUNDS"}
         /\ (pc[t] # "done" /\ pc'[t] = "done" /\ result'[t].status = "DECLINED")
              => CommitsDeclined(t)]_vars

\* A call was declined and the record of a key is FAILED, with no payment.
C9_Witness ==
    /\ \E t \in Calls : Returned(t, "DECLINED") /\ result[t].error_code = "INSUFFICIENT_FUNDS"
    /\ \E k \in Keys : idempotency_keys[k].status = "FAILED" /\ PaymentsOfKey(k) = {}

LeavesValidation(t) == pc[t] = "validate" /\ pc'[t] # "validate"

\* C10: deterministic decline code - validation declines with the code of the
\* first failing check in the order INVALID_AMOUNT, SAME_ACCOUNT,
\* ACCOUNT_NOT_FOUND (payer, then payee), INSUFFICIENT_FUNDS, and a command
\* failing none of the checks is not declined.
C10_DeclineCode ==
    [][\A t \in Calls :
         LeavesValidation(t) =>
           LET c == cmd[t]
               declined == pc'[t] = "mark_failed" /\ result'[t].status = "DECLINED"
               code == result'[t].error_code
               badAmount == c.amount_cents <= 0
               same == c.payer_account_id = c.payee_account_id
               missing == c.payer_account_id \notin accounts
                            \/ c.payee_account_id \notin accounts
               poor == \/ c.payer_account_id \notin BalanceAccounts
                       \/ account_balances[c.payer_account_id].available_balance_cents
                            < c.amount_cents
           IN  /\ badAmount => declined /\ code = "INVALID_AMOUNT"
               /\ (~badAmount /\ same) => declined /\ code = "SAME_ACCOUNT"
               /\ (~badAmount /\ ~same /\ missing) =>
                    declined /\ code = "ACCOUNT_NOT_FOUND"
               /\ (~badAmount /\ ~same /\ ~missing /\ poor) =>
                    declined /\ code = "INSUFFICIENT_FUNDS"
               /\ (~badAmount /\ ~same /\ ~missing /\ ~poor) =>
                    pc'[t] = "add_payment" /\ result'[t] = NoResult]_vars

\* One command was declined for its amount, another one for an unknown account.
C10_Witness ==
    \E t, u \in Calls :
        /\ Returned(t, "DECLINED") /\ result[t].error_code = "ACCOUNT_NOT_FOUND"
        /\ Returned(u, "DECLINED") /\ result[u].error_code = "INVALID_AMOUNT"

\* The order of account identifiers as strings
LexLess(a, b) ==
    <<a, b>> \in {<<"A", "B">>, <<"A", "C">>, <<"A", "D">>, <<"A", "X">>,
                  <<"B", "C">>, <<"B", "D">>, <<"B", "X">>,
                  <<"C", "D">>, <<"C", "X">>, <<"D", "X">>}

AcquiresFirstLock(t) == pc[t] = "lock_payer" /\ pc'[t] = "lock_payee"

\* C11 (as claimed): lock-acquisition order - the first of the two balance
\* row locks a call acquires is the lock of the lexicographically smaller of
\* its two account identifiers, whichever of them is the payer.
C11_LexicographicLockOrder ==
    [][\A t \in Calls :
         AcquiresFirstLock(t) =>
           /\ tx'[t].locks \ tx[t].locks = {payment[t].payer_account_id}
                => ~LexLess(payment[t].payee_account_id, payment[t].payer_account_id)
           /\ tx'[t].locks \ tx[t].locks = {payment[t].payee_account_id}
                => ~LexLess(payment[t].payer_account_id, payment[t].payee_account_id)]_vars

HoldsAndWaits(t, u) ==
    /\ pc[t] = "lock_payee"
    /\ payment[t].payer_account_id \in tx[t].locks
    /\ payment[t].payee_account_id \in tx[u].locks

\* C12 (as claimed): no pairwise deadlock - two concurrent calls transferring
\* in opposite directions between the same two accounts never reach a state
\* in which each holds the row lock of one balance and waits for the lock the
\* other holds.
C12_NoPairwiseDeadlock ==
    \A t, u \in Calls :
        (/\ t # u
         /\ payment[t].payer_account_id = payment[u].payee_account_id
         /\ payment[t].payee_account_id = payment[u].payer_account_id)
        => ~(HoldsAndWaits(t, u) /\ HoldsAndWaits(u, t))

LastToReturn(t) ==
    /\ pc[t] \notin {"idle", "done"}
    /\ pc'[t] = "done"
    /\ \A u \in Calls \ {t} : pc[u] = "done"

\* Every call but t has returned AUTHORIZED for a payment of another key that
\* debits account P by more than half of its initial balance
OthersDrained(t, P) ==
    \A u \in Calls \ {t} :
        /\ Returned(u, "AUTHORIZED")
        /\ \E p \in payments :
             /\ p.id = result[u].payment_id
             /\ p.payer_account_id = P
             /\ p.idempotency_key # cmd[t].idempotency_key
             /\ 2 * p.amount_cents > InitAvailable

\* C13 (as claimed): concurrent drain - when the calls have distinct keys and
\* each debits the payer A by more than half of its initial balance, a call
\* that loses returns DECLINED with INSUFFICIENT_FUNDS; it does not end with a
\* raised error.
C13_ConcurrentDrainDeclines ==
    [][\A t \in Calls :
         (/\ LastToReturn(t)
          /\ cmd[t].payer_account_id = "A"
          /\ cmd[t].payee_account_id # "A"
          /\ 2 * cmd[t].amount_cents > InitAvailable
          /\ OthersDrained(t, "A"))
         => result'[t] = Declined("INSUFFICIENT_FUNDS")]_vars

RaisesAfterValidation(t) ==
    /\ pc[t] \in {"add_payment", "lock_payer", "lock_payee", "transfer"}
    /\ pc'[t] = "done"
    /\ result'[t].status = "RAISED"

RowsOfCall(t) ==
    {p \in payments : p.id = ULID(t, 0)}
      \cup {e \in ledger_entries : e.id \in {ULID(t, 1), ULID(t, 2)}}
      \cup {o \in outbox : o.id = ULID(t, 3)}

\* C14: fatal failures persist nothing - the step in which a call raises after
\* validation changes no committed payment, ledger entry, outbox row or
\* balance row, and no committed state holds a row written by a call that
\* raised.
C14_FatalPersistsNothing ==
    [][/\ \A t \in Calls :
            RaisesAfterValidation(t) =>
              UNCHANGED <<account_balances, payments, ledger_entries, outbox>>
       /\ \A t \in Calls : Returned(t, "RAISED") => RowsOfCall(t) = {}]_vars

\* A call was rolled back by the re-check under the lock after it had inserted
\* its payment row, and the only committed payment is the one of another call.
C14_Witness ==
    \E t \in Calls :
        /\ Returned(t, "RAISED") /\ result[t].error_code = "ValueError"
        /\ Cardinality(payments) = 1
        /\ \A p \in payments : p.id # ULID(t, 0)

\* C15 (as claimed): after a fatal error of a call that inserted the record
\* of its key (the key had no record before the call), the committed record
\* of the key is PENDING.
C15_PendingSurvivesFatal ==
    [][\A t \in Calls :
         (RaisesAfterValidation(t) /\ tx[t].idem.op = "insert")
         => idempotency_keys'[cmd[t].idempotency_key].status = "PENDING"]_vars

Retryable(key) == IdempotencyGet(key).status \in {"PENDING", "FAILED"}

\* C16: fresh attempt after PENDING or FAILED - a call whose key has a PENDING
\* or FAILED record goes to validation without inserting a record, and when
\* such a call commits an authorization the same record becomes COMPLETED
\* with the id of the new payment, which is the id returned.
C16_FreshAttempt ==
    [][\A t \in Calls :
         /\ (pc[t] = "idle" /\ pc'[t] # "idle")
              => \A c \in AuthorizePaymentCommand :
                   (Retryable(c.idempotency_key) /\ AuthorizePayment(t, c))
                   => /\ pc'[t] = "validate" /\ cmd'[t] = c
                      /\ tx' = tx
                      /\ UNCHANGED db
         /\ (CommitsAuthorized(t) /\ Retryable(cmd[t].idempotency_key))
              => /\ tx[t].idem.op = "update"
                 /\ idempotency_keys'[cmd[t].idempotency_key] =
                      [status |-> "COMPLETED", payment_id |-> payment[t].id,
                       expired |-> FALSE]
                 /\ result'[t].payment_id = payment[t].id
                 /\ \A p \in payments : p.id # payment[t].id]_vars

\* A key was declined for INSUFFICIENT_FUNDS, and a later call with the same
\* key was authorized: its payment is committed and the one record is COMPLETED.
C16_Witness ==
    \E t, u \in Calls, k \in Keys :
        /\ Returned(t, "DECLINED") /\ result[t].error_code = "INSUFFICIENT_FUNDS"
        /\ Returned(u, "AUTHORIZED")
        /\ idempotency_keys[k] = [status |-> "COMPLETED",
                                  payment_id |-> result[u].payment_id, expired |-> FALSE]
        /\ \A j \in Keys \ {k} : idempotency_keys[j].status = "NONE"

\* C17 (as claimed): payment currency invariant - the currency of every
\* committed payment is the currency of its payer account and of its payee
\* account.
C17_PaymentCurrency ==
    \A p \in payments :
        /\ p.currency = AccountCurrency(p.payer_account_id)
        /\ p.currency = AccountCurrency(p.payee_account_id)

\* C18: optimistic balance update - update(account, new_available,
\* expected_version) writes new_available and version + 1 to the row if and
\* only if the stored version equals expected_version, and otherwise raises
\* OptimisticLockError naming 'AccountBalance' and the account id and writes
\* nothing; the version of a committed balance row never decreases and is
\* raised by exactly one by every commit that changes the row.
C18_OptimisticUpdate ==
    [][/\ \A t \in Calls, a \in accounts, n \in Amounts, v \in Versions :
            BalancesUpdate(t, a, n, v) =>
              IF a \in BalanceAccounts /\ account_balances[a].version = v
              THEN /\ tx'[t].balances =
                        {[account_id |-> a, available_balance_cents |-> n,
                          version |-> v + 1]}
                   /\ pc'[t] # "done"
              ELSE /\ tx'[t].balances = {}
                   /\ pc'[t] = "done"
                   /\ result'[t].status = "RAISED"
                   /\ result'[t].error_code = "Optimistic lock failed for AccountBalance " \o a
                   /\ UNCHANGED db
       /\ \A a \in BalanceAccounts :
            /\ account_balances'[a].version >= account_balances[a].version
            /\ account_balances'[a] # account_balances[a]
                 => account_balances'[a].version = account_balances[a].version + 1]_vars

\* One session updated a row and committed; another session's update of the
\* same row with the version it had before was refused.
C18_Witness ==
    \E t, u \in Calls, a \in BalanceAccounts :
        /\ Returned(t, "UPDATED")
        /\ Returned(u, "RAISED")
        /\ result[u].error_code = OptimisticLockError("AccountBalance", a)
        /\ account_balances[a].version = 2

Published(id) == \E o \in outbox : o.id = id /\ o.published_at # "NULL"

\* The event ids a step of processor d hands to the producer or marks published
Handled(d) ==
    {m.value.event_id : m \in (broker' \ broker) \cup (sent'[d] \ sent[d])}
      \cup (published_ids'[d] \ published_ids[d])
      \cup (dtx'[d].published \ dtx[d].published)

\* C19: published is final - a committed non-null published_at is never
\* changed, a row that has it is in no batch returned by get_unpublished, and
\* no step of a processor sends or marks such a row.
C19_PublishedIsFinal ==
    [][/\ \A o \in outbox :
            o.published_at # "NULL" =>
              \E n \in outbox' : n.id = o.id /\ n.published_at = o.published_at
       /\ \A d \in Dispatchers :
            /\ \A id \in Range(events'[d]) : ~Published(id)'
            /\ \A id \in Handled(d) : ~Published(id)]_vars

\* One row is committed as published while a later batch, which does not
\* hold it, is in flight and has had a send acknowledged.
C19_Witness ==
    \E d \in Dispatchers, o \in outbox :
        /\ o.published_at # "NULL"
        /\ events[d] # <<>>
        /\ sent[d] # {}

NewlyPublished == {o.id : o \in {r \in outbox : r.published_at = "NULL"}} \cap
                  {n.id : n \in {r \in outbox' : r.published_at # "NULL"}}

\* C20: no loss - a commit sets published_at only on rows for which the broker
\* acknowledged a send to the processor earlier in the same batch: to the DLQ
\* topic if the row was read with retry_count >= max_retries, to the topic of
\* its event type otherwise; nothing but the commit of a batch sets it.
C20_PublishedOnlyIfAcknowledged ==
    [][\A id \in NewlyPublished :
         \E d \in Dispatchers :
            /\ dpc[d] = "commit" /\ dpc'[d] = "poll"
            /\ id \in Range(events[d])
            /\ LET event == OutboxRow(id)
                   topic == IF event.retry_count >= max_retries
                            THEN "payments.dlq" ELSE "payments.paymentauthorized"
               IN  /\ \E m \in sent[d] \cap broker :
                          /\ m.topic = topic /\ m.key = event.aggregate_id
                          /\ m.value.event_id = id
                   /\ \A m \in sent[d] : m.value.event_id = id => m.topic = topic]_vars

\* A batch was rolled back after an acknowledged send, the row stayed
\* unpublished although the broker holds its message, and another row is
\* published with its message at the broker.
C20_Witness ==
    /\ \E o \in outbox : /\ o.published_at = "NULL"
                         /\ \E m \in broker : m.value.event_id = o.id
                         /\ \A d \in Dispatchers : o.id \notin Range(events[d])
    /\ \E o \in outbox : /\ o.published_at # "NULL"
                         /\ \E m \in broker : m.value.event_id = o.id /\ m.topic = DlqTopic

\* The unpublished committed rows that no other processor holds in a batch
FreeRows(d) == {o.id : o \in {r \in outbox : r.published_at = "NULL"}} \
               UNION {Range(events[e]) : e \in Dispatchers \ {d}}

\* C28: dispatcher row exclusivity - no outbox row is in the in-flight
\* batches of two processors at once; a batch keeps its rows until its
\* transaction ends; and a poll does not wait for rows another processor
\* holds: it returns at once with the oldest rows nobody holds.
C28_RowExclusivity ==
    [][/\ \A d, e \in Dispatchers :
            d # e => Range(events[d]) \cap Range(events[e]) = {}
       /\ \A d \in Dispatchers :
            /\ (dpc[d] \in InBatch /\ dpc'[d] \in InBatch) => events'[d] = events[d]
            /\ (dpc[d] = "poll" /\ dpc'[d] = "for_event") =>
                  /\ Range(events'[d]) \subseteq FreeRows(d)
                  /\ \A id \in FreeRows(d) \ Range(events'[d]) :
                        /\ Len(events'[d]) = batch_size[d]
                        /\ \A taken \in Range(events'[d]) : taken < id]_vars

\* Two batches are in flight, and the later poll skipped an older row that
\* the other processor holds.
C28_Witness ==
    \E d, e \in Dispatchers :
        /\ d # e
        /\ events[d] # <<>> /\ events[e] # <<>>
        /\ dpc[e] = "for_event" /\ pos[e] = 1 /\ dpc[d] # "for_event"
        /\ \E held \in Range(events[d]) : \A id \in Range(events[e]) : held < id

\* C22: retry budget partition - every record a processor hands to its
\* producer goes to "payments.dlq" if the row was read with retry_count >=
\* max_retries and to "payments.paymentauthorized" if it was read with
\* retry_count < max_retries; a row whose committed retry_count has reached
\* max_retries is never sent to the topic of its event type again.
C22_RetryBudgetPartition ==
    [][\A d \in Dispatchers :
         \A m \in attempted'[d] \ attempted[d] :
            LET event == OutboxRow(m.value.event_id)
            IN  /\ event.id \in Range(events[d])
                /\ event.retry_count >= max_retries => m.topic = "payments.dlq"
                /\ event.retry_count < max_retries =>
                     m.topic = "payments.paymentauthorized"]_vars

\* One batch has handed the producer a record for the DLQ topic and a record
\* for the topic of the event type.
C22_Witness ==
    \E d \in Dispatchers :
        /\ \E m \in attempted[d] : m.topic = "payments.dlq"
        /\ \E m \in attempted[d] : m.topic = "payments.paymentauthorized"

\* The record of the batch of d for an event on the topic of its event type
NormalRecords(d, id) == {m \in attempted[d] : m.value.event_id = id /\ m.topic # DlqTopic}

\* C23: partial batch failure - when a batch commits, every event of it read
\* below max_retries was handed to the producer; one whose send failed has its
\* retry_count incremented by exactly 1 and stays unpublished, one whose send
\* was acknowledged is published with its retry_count unchanged.
C23_PartialBatchFailure ==
    [][\A d \in Dispatchers :
         (dpc[d] = "commit" /\ dpc'[d] = "poll") =>
           \A id \in Range(events[d]) :
              LET before == OutboxRow(id)
                  after == CHOOSE o \in outbox' : o.id = id
              IN  before.retry_count < max_retries =>
                    /\ NormalRecords(d, id) # {}
                    /\ IF NormalRecords(d, id) \cap sent[d] # {}
                       THEN /\ after.published_at # "NULL"
                            /\ after.retry_count = before.retry_count
                       ELSE /\ after.published_at = "NULL"
                            /\ after.retry_count = before.retry_count + 1]_vars

\* A batch is about to commit in which the send of the first event failed
\* and the send of a later event was acknowledged.
C23_Witness ==
    \E d \in Dispatchers :
        /\ dpc[d] = "commit"
        /\ Len(events[d]) > 1
        /\ NormalRecords(d, events[d][1]) # {}
        /\ NormalRecords(d, events[d][1]) \cap sent[d] = {}
        /\ NormalRecords(d, events[d][2]) \cap sent[d] # {}

\* The records of the batch of d for an event on the DLQ topic
DlqRecords(d, id) == {m \in attempted[d] : m.value.event_id = id /\ m.topic = "payments.dlq"}

\* C24: DLQ escalation outcome - a record sent to the DLQ topic carries the
\* envelope of the row with its retry_count, failed_at and the error
\* "max_retries_exceeded"; a failed DLQ publish raises nothing, the batch goes
\* on; and at the commit of the batch a row read with retry_count >=
\* max_retries is published if its DLQ publish was acknowledged and is left
\* unpublished otherwise, with its retry_count unchanged either way.
C24_DlqEscalationOutcome ==
    [][\A d \in Dispatchers :
         /\ \A m \in attempted'[d] \ attempted[d] :
               m.topic = "payments.dlq" =>
                 LET event == OutboxRow(m.value.event_id)
                 IN  /\ m.key = event.aggregate_id
                     /\ m.value = [event_id |-> event.id,
                                   aggregate_type |-> event.aggregate_type,
                                   aggregate_id |-> event.aggregate_id,
                                   event_type |-> event.event_type,
                                   payload |-> event.payload,
                                   retry_count |-> event.retry_count,
                                   failed_at |-> "NOW",
                                   error |-> "max_retries_exceeded"]
                     /\ dpc'[d] \in {"send_to_dlq", "commit"}
                     /\ events'[d] = events[d]
                     /\ m \notin sent'[d] => dtx'[d] = dtx[d]
         /\ (dpc[d] = "commit" /\ dpc'[d] = "poll") =>
              \A id \in Range(events[d]) :
                 LET before == OutboxRow(id)
                     after == CHOOSE o \in outbox' : o.id = id
                 IN  before.retry_count >= max_retries =>
                       /\ DlqRecords(d, id) # {}
                       /\ after.retry_count = before.retry_count
                       /\ after.published_at # "NULL" <=>
                            DlqRecords(d, id) \cap sent[d] # {}]_vars

\* A batch is about to commit after one acknowledged and one failed DLQ
\* publish.
C24_Witness ==
    \E d \in Dispatchers :
        /\ dpc[d] = "commit"
        /\ \E id \in Range(dlq_events[d]) : DlqRecords(d, id) \cap sent[d] # {}
        /\ \E id \in Range(dlq_events[d]) :
              DlqRecords(d, id) # {} /\ DlqRecords(d, id) \cap sent[d] = {}

\* The loop of start() is over: it is inside or past its finally
LoopExited(d) == dpc[d] \in {"stopping", "exited"}

\* C25: circuit breaker - the counter of consecutive failures grows by 1 in
\* every iteration in which _process_batch raises and is 0 after every
\* iteration that returns normally; the loop ends when and only when the
\* counter reaches 10 or stop() has cleared the running flag; and once the
\* loop has ended stop() has run: the running flag is false and, when start()
\* is over, the producer is released.
C25_CircuitBreaker ==
    [][\A d \in LoopDispatchers :
         /\ ProcessBatchRaises(d) => consecutive_failures'[d] = consecutive_failures[d] + 1
         /\ (CommitBatch(d) \/ EmptyPoll(d)) => consecutive_failures'[d] = 0
         /\ consecutive_failures'[d] # consecutive_failures[d] =>
              \/ consecutive_failures'[d] = 0
              \/ dpc[d] \in InBatch \cup {"poll"} /\ events'[d] = <<>> /\ outbox' = outbox
         /\ consecutive_failures'[d] <= 10
         /\ (~LoopExited(d) /\ LoopExited(d)') =>
              consecutive_failures'[d] = 10 \/ ~running[d]
         /\ consecutive_failures'[d] = 10 => LoopExited(d)'
         /\ (dpc[d] = "poll" /\ ~running[d] /\ dpc'[d] # "poll") => LoopExited(d)'
         /\ LoopExited(d)' => ~running'[d]
         /\ dpc'[d] = "exited" => producer'[d] = "None"]_vars

\* The breaker has opened: ten iterations in a row raised, nobody asked the
\* processor to stop, and the loop has ended.
C25_Witness ==
    \E d \in LoopDispatchers :
        /\ consecutive_failures[d] = 10
        /\ stop_pc[d] = "wait"
        /\ dpc[d] = "exited"
        /\ \E o \in outbox : o.published_at # "NULL"

\* C21: eventual dispatch - while the loops of the processors keep running
\* and the broker acknowledges a send that is tried again and again, every
\* committed outbox row is eventually published.
C21_EventualDispatch ==
    \A t \in Calls :
        (\E o \in outbox : o.id = ULID(t, 3)) ~> Published(ULID(t, 3))

\* One row was published by a normal publish and another by a DLQ publish
\* after its retries were used up.
C21_Witness ==
    /\ \E o \in outbox : /\ o.published_at # "NULL" /\ o.retry_count < max_retries
                         /\ \E m \in broker : m.value.event_id = o.id /\ m.topic = Topic(o)
    /\ \E o \in outbox : /\ o.published_at # "NULL" /\ o.retry_count >= max_retries
                         /\ \E m \in broker : m.value.event_id = o.id /\ m.topic = DlqTopic

\* A committed row whose retries are used up is waiting for its DLQ publish
DlqPending == \E o \in outbox : o.published_at = "NULL" /\ o.retry_count >= max_retries

\* The broker has just acknowledged a record on the DLQ topic
DlqAcknowledged == \E d \in Dispatchers : \E m \in sent[d] : m.topic = "payments.dlq"

\* C26: a DLQ publish that always fails ends at the circuit breaker - if no
\* DLQ publish is ever acknowledged, a running processor that faces a row
\* whose retries are used up eventually leaves its loop.
C26_DlqFailureOpensBreaker ==
    ([]~DlqAcknowledged) =>
        \A d \in LoopDispatchers : (DlqPending /\ running[d]) ~> LoopExited(d)

C29_StopOnlyAtPollBoundary ==
    [][\A d \in LoopDispatchers :
         stop_pc[d] # "wait" =>
           /\ (dpc[d] = "for_event" /\ ~RetriesExhausted(OutboxRow(events[d][pos[d]]))
                 /\ dpc'[d] \in InBatch /\ <<dpc'[d], pos'[d]>> # <<dpc[d], pos[d]>>) =>
                attempted'[d] # attempted[d]
           /\ (dpc[d] \in InBatch /\ dpc'[d] \notin InBatch) => dpc'[d] = "poll"
           /\ dpc[d] = "poll" => dpc'[d] \notin InBatch]_vars

\* C30: idempotent shutdown - the underlying producer is stopped at most
\* once however often stop() is called, and after a call of stop() has
\* returned the running flag is false and the producer is released.
C30_IdempotentShutdown ==
    \A d \in Dispatchers :
        /\ producer_stops[d] <= 1
        /\ (stop_pc[d] \in {"cancel", "done"} \/ dpc[d] = "exited") =>
              ~running[d] /\ producer[d] = "None"

\* C36: no committed PENDING record - no committed idempotency record has
\* status PENDING, and a call that inserted one has finalized it by the time
\* it commits.
C36_NoCommittedPending ==
    /\ \A k \in Keys : idempotency_keys[k].status # "PENDING"
    /\ \A t \in Calls : pc[t] = "commit" => tx[t].idem.status # "PENDING"

\* One inserted PENDING record was committed as COMPLETED and another as
\* FAILED.
C36_Witness ==
    /\ \E k \in Keys : idempotency_keys[k].status = "COMPLETED"
    /\ \E k \in Keys : idempotency_keys[k].status = "FAILED"
    /\ \A t \in Calls : pc[t] = "done" /\ tx[t].idem = NoIdemWrite

\* The sum of available_balance_cents over the accounts with a balance row
RECURSIVE SumAvailable(_, _)
SumAvailable(balances, ids) ==
    IF ids = {} THEN 0
    ELSE LET a == CHOOSE x \in ids : TRUE
         IN  balances[a].available_balance_cents + SumAvailable(balances, ids \ {a})

\* C37: conservation of money - the sum of available_balance_cents over all
\* accounts is the same in every committed state.
C37_ConservationOfMoney ==
    SumAvailable(account_balances, BalanceAccounts) = InitAvailable + 1 + 1

\* Money has moved: transfers were committed in both directions and a call
\* was declined.
C37_Witness ==
    /\ \E p \in payments : p.payer_account_id = "A" /\ p.payee_account_id = "B"
    /\ account_balances["A"].available_balance_cents # InitAvailable
    /\ \E t \in Calls : pc[t] = "done" /\ result[t].status # "AUTHORIZED"

\* C38: idempotency/payment consistency - a committed idempotency record has
\* a payment_id exactly if a payment row with that id and that key exists;
\* every committed payment is AUTHORIZED and the record of its key carries
\* its id.
C38_IdempotencyPaymentConsistency ==
    /\ \A k \in Keys :
          idempotency_keys[k].payment_id # 0 <=>
             \E p \in payments : p.id = idempotency_keys[k].payment_id
                                 /\ p.idempotency_key = k
    /\ \A p \in payments :
          /\ p.status = "AUTHORIZED"
          /\ idempotency_keys[p.idempotency_key].status # "NONE"
          /\ idempotency_keys[p.idempotency_key].payment_id = p.id

\* Two payments are committed under two keys and each record names its own.
C38_Witness ==
    /\ Cardinality(payments) = 2
    /\ \A k \in Keys : idempotency_keys[k].payment_id # 0

\* The request c of is_allowed gets its answer in this step
Decides(c) == rl_pc[c] = "execute" /\ rl_pc'[c] = "done"

\* The entries of the bucket of request c that its window still holds
Unexpired(c) == {e \in zsets[rl_call[c].key] : e.score > rl_call[c].now - WindowSeconds}

\* C31: rate-limit decision - with c the number of unexpired entries counted
\* before the request is added, is_allowed returns allowed = (c <
\* max_requests) and remaining = max(0, max_requests - c - 1); at c =
\* max_requests the request is denied with remaining 0.
C31_RateLimitDecision ==
    [][\A c \in RateCalls :
         Decides(c) =>
           LET count == Cardinality(Unexpired(c))
           IN  /\ rl_result'[c].is_allowed = (count < MaxRequests)
               /\ rl_result'[c].remaining =
                    (IF MaxRequests - count - 1 > 0 THEN MaxRequests - count - 1 ELSE 0)
               /\ count = MaxRequests =>
                    ~rl_result'[c].is_allowed /\ rl_result'[c].remaining = 0]_vars

\* A first request was allowed with all but one slot remaining and the
\* request after max_requests others was denied with nothing remaining.
C31_Witness ==
    /\ \E c \in RateCalls :
          /\ rl_pc[c] = "done"
          /\ rl_result[c] = [is_allowed |-> TRUE, remaining |-> MaxRequests - 1]
    /\ \E c \in RateCalls :
          /\ rl_pc[c] = "done"
          /\ rl_result[c] = [is_allowed |-> FALSE, remaining |-> 0]
          /\ Cardinality(zsets[rl_call[c].key]) = MaxRequests + 1

\* The requests for a key that were allowed with a timestamp in [from, from +
\* window_seconds)
AllowedIn(key, from) ==
    {c \in RateCalls : /\ rl_pc[c] = "done" /\ rl_call[c].op = "is_allowed"
                       /\ rl_call[c].key = key /\ rl_result[c].is_allowed
                       /\ from <= rl_call[c].now /\ rl_call[c].now < from + WindowSeconds}

\* C32: rate-limit bound - for every identifier and every window of
\* window_seconds, at most max_requests calls of is_allowed were allowed.
C32_RateLimitBound ==
    \A key \in DOMAIN zsets : \A from \in 0..MaxTime :
        Cardinality(AllowedIn(key, from)) <= MaxRequests

\* C33: a denied request consumes a slot - whether it is allowed or denied,
\* a request is recorded in the sorted set of its identifier with its
\* timestamp as member and score, and the expiry of the key is set to
\* window_seconds from the execution of the pipeline.
C33_DeniedConsumesSlot ==
    [][\A c \in RateCalls :
         Decides(c) =>
           /\ \E e \in zsets'[rl_call[c].key] :
                 e.score = rl_call[c].now /\ e.member = Str(rl_call[c].now)
           /\ ttl'[rl_call[c].key] = clock + WindowSeconds
           /\ \A e \in Unexpired(c) : e \in zsets'[rl_call[c].key]]_vars

\* A request was denied although fewer than max_requests allowed requests
\* lie in its window: the record of an earlier denied request filled the slot.
C33_Witness ==
    \E c, denied \in RateCalls :
        /\ rl_pc[c] = "done" /\ rl_pc[denied] = "done"
        /\ ~rl_result[c].is_allowed /\ ~rl_result[denied].is_allowed
        /\ rl_call[denied].key = rl_call[c].key
        /\ rl_call[denied].now < rl_call[c].now
        /\ \E e \in zsets[rl_call[c].key] : e.score = rl_call[denied].now
        /\ Cardinality({a \in RateCalls :
                          /\ rl_pc[a] = "done" /\ rl_result[a].is_allowed
                          /\ rl_call[a].key = rl_call[c].key
                          /\ rl_call[a].now > rl_call[c].now - WindowSeconds})
             < MaxRequests

\* The requests for the key of request c made before it, whatever their
\* outcome, and the time of the latest of them
EarlierCalls(c) ==
    {p \in RateCalls : /\ p # c
                       /\ rl_pc[p] # "idle"
                       /\ rl_call[p].op = "is_allowed"
                       /\ rl_call[p].key = rl_call[c].key}

\* C35: window recovery - when every other request for the identifier lies
\* more than window_seconds before the request and has been executed, the
\* request is allowed with remaining = max_requests - 1, whatever number of
\* allowed and denied requests preceded the pause.
C35_WindowRecovery ==
    [][\A c \in RateCalls :
         (/\ Decides(c)
          /\ \A p \in EarlierCalls(c) :
                /\ rl_pc[p] = "done"
                /\ rl_call[c].now - rl_call[p].now > WindowSeconds)
         => /\ rl_result'[c].is_allowed
            /\ rl_result'[c].remaining = MaxRequests - 1]_vars

\* A request is allowed with remaining = max_requests - 1 after a pause that
\* two allowed requests and a denied one preceded.
C35_Witness ==
    \E c \in RateCalls :
        /\ rl_pc[c] = "done"
        /\ rl_result[c] = [is_allowed |-> TRUE, remaining |-> MaxRequests - 1]
        /\ \A p \in EarlierCalls(c) :
              rl_pc[p] = "done" /\ rl_call[c].now - rl_call[p].now > WindowSeconds
        /\ \E denied \in EarlierCalls(c) : ~rl_result[denied].is_allowed
        /\ Cardinality({p \in EarlierCalls(c) : rl_result[p].is_allowed}) = MaxRequests

\* The bucket of request c, and the records in it that the window of c holds
Bucket(c) == rl_call[c].key_prefix \o rl_call[c].identifier
InWindow(c) == {e \in zsets[Bucket(c)] : e.score > rl_call[c].now - WindowSeconds}

\* Every record of a bucket was written by an is_allowed request for the
\* prefix and identifier of the bucket
OwnRecordsOnly ==
    \A k \in DOMAIN zsets : \A e \in zsets[k] :
        \E p \in RateCalls : /\ rl_call[p].op = "is_allowed"
                             /\ rl_pc[p] = "done"
                             /\ Bucket(p) = k
                             /\ rl_call[p].now = e.score

FailedSends(d, id) ==
    {m \in attempted[d] \ sent[d] : m.topic # DlqTopic /\ m.value.event_id = id}

\* C39: retry count reflects real failures - the retry_count of an outbox
\* row rises only by the commit of a batch in which a send of that row was
\* handed to the producer and failed; a stop() that releases the producer
\* during the batch takes no retry from the rows the batch still has to
\* publish.
C39_RetryCountReflectsFailures ==
    [][\A o \in outbox : \A after \in outbox' :
         (after.id = o.id /\ after.retry_count > o.retry_count) =>
            \E d \in LoopDispatchers : dpc[d] = "commit" /\ FailedSends(d, o.id) # {}]_vars

\* The batch of d raises: it leaves _process_batch and the loop counts a
\* failure
BatchRaises(d) ==
    /\ dpc[d] \in InBatch
    /\ dpc'[d] \notin InBatch
    /\ consecutive_failures'[d] = consecutive_failures[d] + 1

\* C40: batch atomicity on error - when a batch raises after some of its
\* events were sent, no mark_published and no retry_count increment of the
\* batch becomes visible: every row of the batch stays unpublished with the
\* retry_count it had, held by no processor, so that a later poll reads it
\* again.
C40_BatchAtomicityOnError ==
    [][\A d \in LoopDispatchers :
         (BatchRaises(d) /\ attempted[d] # {}) =>
            /\ outbox' = outbox
            /\ dtx'[d] = EmptyBatchTx
            /\ \A id \in Range(events[d]) :
                  /\ \E o \in outbox' : /\ o.id = id
                                        /\ o.published_at = "NULL"
                                        /\ o.retry_count = OutboxRow(id).retry_count
                  /\ \A e \in Dispatchers : id \notin Range(events'[e])]_vars

\* A record of a row is on the broker, the batch that sent it has raised, and
\* the row is unpublished with retry_count 0 before the next poll.
C40_Witness ==
    \E d \in LoopDispatchers : \E o \in outbox : \E m \in broker :
        /\ dpc[d] = "poll"
        /\ consecutive_failures[d] = 1
        /\ events[d] = <<>>
        /\ m.topic # DlqTopic /\ m.value.event_id = o.id
        /\ o.published_at = "NULL"
        /\ o.retry_count = 0
====
